---- MODULE Spec2Model ----
(***************************************************************************)
(* Model of the PDF generation service: the invoice schema's monetary      *)
(* arithmetic (app/schemas/invoice.py), the document core                  *)
(* (app/services/pdf_service.py) and the two POST endpoints                *)
(* (app/api/v1/endpoints/pdf.py).                                          *)
(***************************************************************************)
EXTENDS Integers, Sequences, FiniteSets, TLC

(***************************************************************************)
(* Naturals of any size: little-endian sequences of decimal digits with no *)
(* zero at the high end; <<>> is zero.  They carry the coefficients of     *)
(* decimal.Decimal values, which do not fit a machine integer.  The        *)
(* arithmetic runs on limbs of four digits.                                *)
(***************************************************************************)
RECURSIVE NatOf(_)
NatOf(n) == IF n = 0 THEN <<>> ELSE <<n % 10>> \o NatOf(n \div 10)

Zeros(k) == [i \in 1..k |-> 0]

Nines(k) == [i \in 1..k |-> 9]

\* Drop the zeros at the high end
NatStrip(a) ==
    LET nz == {i \in 1..Len(a) : a[i] # 0}
    IN  IF nz = {} THEN <<>>
        ELSE SubSeq(a, 1, CHOOSE i \in nz : \A j \in nz : j <= i)

Pow10 == <<1, 10, 100, 1000>>

DigitAt(a, i) == IF i <= Len(a) THEN a[i] ELSE 0

ToLimbs(a) ==
    [k \in 1..((Len(a) + 3) \div 4) |->
        DigitAt(a, 4 * k - 3) + 10 * DigitAt(a, 4 * k - 2)
        + 100 * DigitAt(a, 4 * k - 1) + 1000 * DigitAt(a, 4 * k)]

FromLimbs(l) ==
    NatStrip([i \in 1..(4 * Len(l)) |->
                (l[((i - 1) \div 4) + 1] \div Pow10[((i - 1) % 4) + 1]) % 10])

RECURSIVE LimbAdd(_, _, _, _)
LimbAdd(a, b, i, c) ==
    IF i > Len(a) /\ i > Len(b) THEN (IF c = 0 THEN <<>> ELSE <<c>>)
    ELSE LET s == DigitAt(a, i) + DigitAt(b, i) + c
         IN  <<s % 10000>> \o LimbAdd(a, b, i + 1, s \div 10000)

\* a - b for a >= b, limb by limb with a borrow w
RECURSIVE LimbSub(_, _, _, _)
LimbSub(a, b, i, w) ==
    IF i > Len(a) THEN <<>>
    ELSE LET d == a[i] - DigitAt(b, i) - w
         IN  <<IF d < 0 THEN d + 10000 ELSE d>>
             \o LimbSub(a, b, i + 1, IF d < 0 THEN 1 ELSE 0)

RECURSIVE LimbScale(_, _, _, _)
LimbScale(a, m, i, c) ==
    IF i > Len(a) THEN (IF c = 0 THEN <<>> ELSE <<c>>)
    ELSE LET s == a[i] * m + c
         IN  <<s % 10000>> \o LimbScale(a, m, i + 1, s \div 10000)

RECURSIVE LimbMul(_, _, _)
LimbMul(a, b, j) ==
    IF j > Len(b) THEN <<>>
    ELSE LimbAdd(LimbScale(a, b[j], 1, 0), <<0>> \o LimbMul(a, b, j + 1), 1, 0)

NatAdd(a, b) == FromLimbs(LimbAdd(ToLimbs(a), ToLimbs(b), 1, 0))

NatSub(a, b) == FromLimbs(LimbSub(ToLimbs(a), ToLimbs(b), 1, 0))

NatMul(a, b) == FromLimbs(LimbMul(ToLimbs(a), ToLimbs(b), 1))

NatLess(a, b) ==
    IF Len(a) # Len(b) THEN Len(a) < Len(b)
    ELSE \E i \in 1..Len(a) :
            a[i] < b[i] /\ \A j \in (i + 1)..Len(a) : a[j] = b[j]

\* a * 10^k
NatShift(a, k) == IF a = <<>> THEN <<>> ELSE Zeros(k) \o a

(***************************************************************************)
(* decimal.Decimal: sign, coefficient, exponent, held in the normal form   *)
(* (no zero at the low end of the coefficient, zero is 0E0), so that two   *)
(* values are numerically equal, as Decimal.__eq__ compares them, exactly  *)
(* when the records are equal.                                             *)
(***************************************************************************)
Norm(neg, coef, exp) ==
    LET nz == {i \in 1..Len(coef) : coef[i] # 0}
    IN  IF nz = {} THEN [neg |-> FALSE, coef |-> <<>>, exp |-> 0]
        ELSE LET lo == CHOOSE i \in nz : \A j \in nz : i <= j
             IN  [neg |-> neg, coef |-> SubSeq(coef, lo, Len(coef)),
                  exp |-> exp + lo - 1]

\* Decimal(str(n) + "E" + str(e)) for a machine integer n
Dec(n, e) == Norm(n < 0, NatOf(IF n < 0 THEN -n ELSE n), e)

DecZero == Dec(0, 0)

DecNeg(a) == Norm(~a.neg, a.coef, a.exp)

\* The number of significant digits of a value
Digits(a) == Len(a.coef)

\* The results of the arithmetic before the context rounds them
ExactMul(a, b) == Norm(a.neg # b.neg, NatMul(a.coef, b.coef), a.exp + b.exp)

ExactAdd(a, b) ==
    LET e  == IF a.exp < b.exp THEN a.exp ELSE b.exp
        ca == NatShift(a.coef, a.exp - e)
        cb == NatShift(b.coef, b.exp - e)
    IN  IF a.neg = b.neg THEN Norm(a.neg, NatAdd(ca, cb), e)
        ELSE IF NatLess(ca, cb) THEN Norm(b.neg, NatSub(cb, ca), e)
        ELSE Norm(a.neg, NatSub(ca, cb), e)

ExactSub(a, b) == ExactAdd(a, DecNeg(b))

ExactDivHundred(a) == Norm(a.neg, a.coef, a.exp - 2)

DecLess(a, b) == ExactSub(a, b).neg

\* getcontext().prec of the default decimal context
Prec == 28

\* Does dropping the k low digits of coef round up, under ROUND_HALF_EVEN?
HalfEvenUp(coef, k) ==
    LET top  == IF k <= Len(coef) THEN coef[k] ELSE 0
        low  == \E i \in 1..(k - 1) : i <= Len(coef) /\ coef[i] # 0
        odd  == k < Len(coef) /\ coef[k + 1] % 2 = 1
    IN  top > 5 \/ (top = 5 /\ (low \/ odd))

\* coef \div 10^k, rounded half-even
NatRoundDrop(coef, k) ==
    LET kept == IF k < Len(coef) THEN SubSeq(coef, k + 1, Len(coef)) ELSE <<>>
    IN  IF HalfEvenUp(coef, k) THEN NatAdd(kept, <<1>>) ELSE kept

\* The context's rounding of an exact result to Prec significant digits
ContextRound(a) ==
    IF Len(a.coef) <= Prec THEN a
    ELSE LET k == Len(a.coef) - Prec
         IN  Norm(a.neg, NatRoundDrop(a.coef, k), a.exp + k)

DecMul(a, b) == ContextRound(ExactMul(a, b))

DecAdd(a, b) == ContextRound(ExactAdd(a, b))

DecSub(a, b) == ContextRound(ExactSub(a, b))

DecDivHundred(a) == ContextRound(ExactDivHundred(a))

\* format(a, ".<places>f"): the value quantized to that many places under the
\* context's rounding, as a signed count of units of 10^-places
Quantize(a, places) ==
    IF a.exp >= -places THEN NatShift(a.coef, a.exp + places)
    ELSE NatRoundDrop(a.coef, -places - a.exp)

FormatF(a, places) ==
    [neg |-> a.neg, units |-> Quantize(a, places), places |-> places]

(***************************************************************************)
(* Python values: Optional fields, and the outcome of a call (a returned   *)
(* value or a raised exception with its str()).  Text is a sequence of     *)
(* pieces, so that an f-string is a concatenation.                         *)
(***************************************************************************)
None == <<>>

Some(v) == <<v>>

Return(v) == [raised |-> FALSE, value |-> v, error |-> <<>>]

Raise(e) == [raised |-> TRUE, value |-> <<>>, error |-> e]

(***************************************************************************)
(* Bounds of the model                                                     *)
(***************************************************************************)
\* the longest items list of an invoice request
MaxItems == 2

\* the longest medications list of a prescription request
MaxMeds == 2

\* the longest document the rendering engine returns, in bytes
MaxPdfLen == 3

\* generation calls running side by side
MaxThreads == 2

\* accounts ever created
MaxUsers == 3

\* steps of the clock
MaxTicks == 1

\* settings.ACCESS_TOKEN_EXPIRE_MINUTES
ACCESS_TOKEN_EXPIRE_MINUTES == 30

(***************************************************************************)
(* Request payloads                                                        *)
(***************************************************************************)
Item(d, q, p, disc, tax) ==
    [description |-> d, quantity |-> q, unit_price |-> p,
     discount_percent |-> disc, tax_percent |-> tax]

\* a quantity and a unit price of 15 significant digits each
BigQuantity == Norm(FALSE, Nines(15), 0)

BigPrice == Norm(FALSE, Nines(15), -2)

\* Line items as a client may post them, valid and invalid
ItemCatalogue ==
    << Item("Web Development Services", Dec(40, 0), Dec(7500, -2), Dec(0, 0), Dec(85, -1)),
       Item("Domain Registration", Dec(1, 0), Dec(1500, -2), Dec(0, 0), Dec(85, -1)),
       Item("Free sample", Dec(40, 0), Dec(0, 0), Dec(125, -1), Dec(85, -1)),
       Item("Fully discounted", Dec(3, 0), Dec(1500, -2), Dec(100, 0), Dec(85, -1)),
       Item("Fully taxed", Dec(3, 0), Dec(1999, -2), Dec(125, -1), Dec(100, 0)),
       Item("Bulk contract", BigQuantity, BigPrice, Dec(125, -1), Dec(85, -1)),
       Item("No quantity", Dec(0, 0), Dec(7500, -2), Dec(0, 0), Dec(85, -1)),
       Item("Negative price", Dec(1, 0), Dec(-1500, -2), Dec(0, 0), Dec(0, 0)) >>

ItemInputs == { ItemCatalogue[i] : i \in 1..Len(ItemCatalogue) }

Medication(n, d, t, dur, note) ==
    [name |-> n, dosage |-> d, timing |-> t, duration |-> dur, note |-> note]

MedInputs ==
    { Medication("Amlodipine 5mg", "1-0-0", "After Food", "30 days", Some("For BP control")),
      Medication("Amoxicillin 500mg", "1-1-1", "Before Food", "7 days", None) }

SeqsUpTo(S, n) == UNION { [1..k -> S] : k \in 0..n }

PatientNames == { <<"J", "o", "h", "n", " ", "D", "o", "e">> }

\* free-form text: the schema declares prescription_date a plain str
PrescriptionDates ==
    { <<"1", "5", "-", "0", "1", "-", "2", "0", "2", "4">>,
      <<"1", "5", " ", "J", "a", "n", " ", "2", "4">> }

InvoiceNumbers == { <<"I", "N", "V", "-", "0", "0", "1">> }

CustomerNames == { <<"A", "B", "C", " ", "C", "o", "r", "p">> }

Doctors ==
    { [ name |-> "Sarah Smith", qualifications |-> "MBBS, MD",
        specialization |-> "Cardiology", registration_number |-> "MED-4471",
        clinic_name |-> "City Heart Clinic", clinic_address |-> "12 Main Street",
        phone |-> "+1-555-0100" ] }

Patients ==
    { [name |-> n, age |-> 45, gender |-> "Male", patient_id |-> id, phone |-> ph] :
        n \in PatientNames,
        <<id, ph>> \in { <<Some("P-1001"), Some("+1-555-0199")>>,
                         <<Some("P-1001"), None>>,
                         <<None, None>> } }

\* symptoms, advice and next_followup of a prescription request
PrescriptionDetails ==
    { <<Some("Chest pain"), Some("Rest and fluids"), Some("2024-02-15")>>,
      <<None, None, None>>,
      <<Some("Chest pain"), Some(""), None>>,
      <<None, Some("Rest and fluids"), None>>,
      <<None, None, Some("2024-02-15")>>,
      <<None, None, Some("")>> }

PrescriptionRequests ==
    { [ kind |-> "prescription", doctor |-> d, patient |-> p, prescription_date |-> date,
        symptoms |-> det[1], medications |-> meds, advice |-> det[2],
        next_followup |-> det[3] ] :
        d \in Doctors, p \in Patients, date \in PrescriptionDates,
        det \in PrescriptionDetails, meds \in SeqsUpTo(MedInputs, MaxMeds) }

\* business, customer, payment_info and notes of an invoice request: every
\* optional field given, none given, and two mixed cases with blank notes
InvoiceParties ==
    { [ business |-> [name |-> "Tech Solutions Inc.", address |-> "123 Business Ave",
                      phone |-> "+1-555-0123", email |-> "billing@techsolutions.com",
                      website |-> w, tax_id |-> t],
        customer |-> [name |-> n, address |-> "456 Client Street",
                      phone |-> ph, email |-> em, customer_id |-> cid],
        payment_info |-> [payment_terms |-> "Net 30", due_date |-> "2024-02-14",
                          payment_method |-> pm, bank_details |-> bd],
        notes |-> notes ] :
        n \in CustomerNames,
        <<w, t, ph, em, cid, pm, bd, notes>> \in
            { <<Some("www.techsolutions.com"), Some("TAX-77"), Some("+1-555-0456"),
                Some("ap@abc.example"), Some("CUST-001"), Some("Bank Transfer"),
                Some("ACC 1234567890"), Some("Thank you for your business!")>>,
              <<None, None, None, None, None, None, None, None>>,
              <<Some("www.techsolutions.com"), None, None, Some("ap@abc.example"),
                None, Some("Bank Transfer"), None, Some("")>>,
              <<None, Some("TAX-77"), Some("+1-555-0456"), None,
                Some("CUST-001"), None, Some("ACC 1234567890"), Some("")>> } }

\* the parties with every optional field given
FullParties == { p \in InvoiceParties : p.business.tax_id # None /\ p.customer.email # None }

\* the two line items of the documented example request
PlainItems ==
    { i \in ItemInputs :
        i.description \in {"Web Development Services", "Domain Registration"} }

InvoiceRequest(n, p, items) ==
    [ kind |-> "invoice", invoice_number |-> n, invoice_date |-> "2024-01-15",
      currency |-> "USD", business |-> p.business, customer |-> p.customer,
      payment_info |-> p.payment_info, notes |-> p.notes, items |-> items ]

\* the lists of up to n line items that name the catalogue's items in its order
CatalogueLists(n) ==
    { [i \in 1..Len(ix) |-> ItemCatalogue[ix[i]]] :
        ix \in { sq \in SeqsUpTo(1..Len(ItemCatalogue), n) :
                    \A i \in 1..(Len(sq) - 1) : sq[i] <= sq[i + 1] } }

\* the lists of catalogue items with the full parties, and the lists of plain
\* items, in every order, with every choice of optional fields
InvoiceRequests ==
    { InvoiceRequest(n, p, items) :
        n \in InvoiceNumbers, p \in FullParties, items \in CatalogueLists(MaxItems) }
    \cup
    { InvoiceRequest(n, p, items) :
        n \in InvoiceNumbers, p \in InvoiceParties,
        items \in SeqsUpTo(PlainItems, MaxItems) }

(***************************************************************************)
(* app/schemas/invoice.py: validation and the derived monetary values      *)
(***************************************************************************)
Hundred == Dec(100, 0)

\* Field(gt=0)
Gt0(x) == DecLess(DecZero, x)

\* Field(ge=0)
Ge0(x) == ~DecLess(x, DecZero)

\* Field(le=100)
Le100(x) == ~DecLess(Hundred, x)

ValidInvoiceItem(item) ==
    /\ Gt0(item.quantity)
    /\ Ge0(item.unit_price)
    /\ Ge0(item.discount_percent) /\ Le100(item.discount_percent)
    /\ Ge0(item.tax_percent) /\ Le100(item.tax_percent)

\* the list constraint left out
MinItemsUnchecked(list) == TRUE

\* Field(..., min_items=1)
MinItems(list) == Len(list) >= 1

ValidInvoiceRequest(req) ==
    /\ MinItems(req.items)
    /\ \A i \in 1..Len(req.items) : ValidInvoiceItem(req.items[i])

ValidPrescriptionRequest(req) == MinItems(req.medications)

InvoiceItem_subtotal(item) == DecMul(item.quantity, item.unit_price)

\* discount_percent taken as a fraction: the division by 100 left out
InvoiceItem_discount_amount_no_percent(item) ==
    DecMul(InvoiceItem_subtotal(item), item.discount_percent)

InvoiceItem_discount_amount(item) ==
    DecMul(InvoiceItem_subtotal(item), DecDivHundred(item.discount_percent))

\* the operands of the subtraction swapped
InvoiceItem_taxable_amount_reversed(item) ==
    DecSub(InvoiceItem_discount_amount(item), InvoiceItem_subtotal(item))

InvoiceItem_taxable_amount(item) ==
    DecSub(InvoiceItem_subtotal(item), InvoiceItem_discount_amount(item))

\* tax charged on the subtotal, before the discount
InvoiceItem_tax_amount_on_subtotal(item) ==
    DecMul(InvoiceItem_subtotal(item), DecDivHundred(item.tax_percent))

InvoiceItem_tax_amount(item) ==
    DecMul(InvoiceItem_taxable_amount(item), DecDivHundred(item.tax_percent))

\* the discount left out of the line total
InvoiceItem_total_undiscounted(item) ==
    DecAdd(InvoiceItem_subtotal(item), InvoiceItem_tax_amount(item))

InvoiceItem_total(item) ==
    DecAdd(InvoiceItem_taxable_amount(item), InvoiceItem_tax_amount(item))

\* The builtin sum(): 0 + x1 + x2 + ..., each addition in the decimal context
RECURSIVE SumFrom(_, _, _)
SumFrom(xs, i, acc) ==
    IF i > Len(xs) THEN acc ELSE SumFrom(xs, i + 1, DecAdd(acc, xs[i]))

PySum(xs) == SumFrom(xs, 1, DecZero)

InvoiceRequest_subtotal(req) ==
    PySum([i \in 1..Len(req.items) |-> InvoiceItem_subtotal(req.items[i])])

InvoiceRequest_total_discount(req) ==
    PySum([i \in 1..Len(req.items) |-> InvoiceItem_discount_amount(req.items[i])])

InvoiceRequest_total_tax(req) ==
    PySum([i \in 1..Len(req.items) |-> InvoiceItem_tax_amount(req.items[i])])

\* the total recomputed from line totals rounded to two places
InvoiceRequest_total_amount_of_rounded(req) ==
    PySum([i \in 1..Len(req.items) |->
              LET t == InvoiceItem_total(req.items[i])
              IN  Norm(t.neg, Quantize(t, 2), -2)])

InvoiceRequest_total_amount(req) ==
    PySum([i \in 1..Len(req.items) |-> InvoiceItem_total(req.items[i])])

(***************************************************************************)
(* base64.b64encode / b64decode (RFC 4648, with padding)                   *)
(***************************************************************************)
B64Alphabet ==
    << "A", "B", "C", "D", "E", "F", "G", "H", "I", "J", "K", "L", "M",
       "N", "O", "P", "Q", "R", "S", "T", "U", "V", "W", "X", "Y", "Z",
       "a", "b", "c", "d", "e", "f", "g", "h", "i", "j", "k", "l", "m",
       "n", "o", "p", "q", "r", "s", "t", "u", "v", "w", "x", "y", "z",
       "0", "1", "2", "3", "4", "5", "6", "7", "8", "9", "+", "/" >>

B64Char(v) == B64Alphabet[v + 1]

B64Value(c) == (CHOOSE i \in 1..64 : B64Alphabet[i] = c) - 1

RECURSIVE b64encode(_)
b64encode(bytes) ==
    IF Len(bytes) = 0 THEN <<>>
    ELSE IF Len(bytes) = 1 THEN
        LET n == bytes[1] * 65536
        IN  <<B64Char(n \div 262144), B64Char((n \div 4096) % 64), "=", "=">>
    ELSE IF Len(bytes) = 2 THEN
        LET n == bytes[1] * 65536 + bytes[2] * 256
        IN  <<B64Char(n \div 262144), B64Char((n \div 4096) % 64),
              B64Char((n \div 64) % 64), "=">>
    ELSE
        LET n == bytes[1] * 65536 + bytes[2] * 256 + bytes[3]
        IN  <<B64Char(n \div 262144), B64Char((n \div 4096) % 64),
              B64Char((n \div 64) % 64), B64Char(n % 64)>>
            \o b64encode(SubSeq(bytes, 4, Len(bytes)))

RECURSIVE b64decode(_)
b64decode(chars) ==
    IF Len(chars) = 0 THEN <<>>
    ELSE LET c3 == chars[3]
             c4 == chars[4]
             n  == B64Value(chars[1]) * 262144 + B64Value(chars[2]) * 4096
                   + (IF c3 = "=" THEN 0 ELSE B64Value(c3) * 64)
                   + (IF c4 = "=" THEN 0 ELSE B64Value(c4))
             b  == <<n \div 65536, (n \div 256) % 256, n % 256>>
         IN  (IF c3 = "=" THEN SubSeq(b, 1, 1)
              ELSE IF c4 = "=" THEN SubSeq(b, 1, 2)
              ELSE b)
             \o b64decode(SubSeq(chars, 5, Len(chars)))

(***************************************************************************)
(* The rendering engine (ReportLab), an external collaborator: for one     *)
(* request it either rejects a flowable while the story is assembled,      *)
(* fails in doc.build, or returns the document's bytes.                    *)
(***************************************************************************)
\* the first bytes of a document: "%", then bytes with the high bits set
PdfBinary == <<37, 255, 0, 171, 128, 254, 1, 127>>

PdfOutputs == { SubSeq(PdfBinary, 1, n) : n \in 1..MaxPdfLen }

EngineBehaviours ==
    { [tag |-> "asm_error", err |-> "paraparser: syntax error", bytes |-> <<>>],
      [tag |-> "render_error", err |-> "LayoutError: flowable too large",
       bytes |-> <<>>] }
    \cup { [tag |-> "bytes", err |-> "", bytes |-> b] : b \in PdfOutputs }

NoEngine == [tag |-> "none", err |-> "", bytes |-> <<>>]

(***************************************************************************)
(* app/services/pdf_service.py                                             *)
(***************************************************************************)
generate_pdf_bytes(story_elements, engine) ==
    IF engine.tag = "render_error"
    THEN Raise(<<"PDF generation failed: ", engine.err>>)
    ELSE Return(engine.bytes)

\* the size measured after the encoding
create_pdf_response_encoded_size(pdf_bytes, filename, success_message) ==
    [ success      |-> TRUE,
      message      |-> <<success_message>>,
      pdf_data     |-> Some(b64encode(pdf_bytes)),
      filename     |-> Some(filename),
      content_type |-> "application/pdf",
      size_bytes   |-> Some(Len(b64encode(pdf_bytes))) ]

create_pdf_response(pdf_bytes, filename, success_message) ==
    [ success      |-> TRUE,
      message      |-> <<success_message>>,
      pdf_data     |-> Some(b64encode(pdf_bytes)),
      filename     |-> Some(filename),
      content_type |-> "application/pdf",
      size_bytes   |-> Some(Len(pdf_bytes)) ]

\* a failure that still names a file
failure_response_with_filename(message) ==
    [ success      |-> FALSE,
      message      |-> message,
      pdf_data     |-> None,
      filename     |-> Some(<<"document.pdf">>),
      content_type |-> "application/pdf",
      size_bytes   |-> None ]

\* PDFResponse(success=False, message=..., pdf_data=None, filename=None),
\* the other fields at their defaults
failure_response(message) ==
    [ success      |-> FALSE,
      message      |-> message,
      pdf_data     |-> None,
      filename     |-> None,
      content_type |-> "application/pdf",
      size_bytes   |-> None ]

\* str.replace(" ", "_")
ReplaceSpaces(name) == [i \in 1..Len(name) |-> IF name[i] = " " THEN "_" ELSE name[i]]

Money(currency, amount) == <<currency, FormatF(amount, 2)>>

\* Python truthiness of an Optional[str]: None and "" are false
Truthy(opt) == opt # None /\ opt[1] # ""

\* opt or default
OrElse(opt, default) == IF Truthy(opt) THEN opt[1] ELSE default

\* ReportLab flowables as the story lists them
Paragraph(text, style) ==
    [type |-> "Paragraph", style |-> style, text |-> text, data |-> <<>>, height |-> 0]

Spacer(height) ==
    [type |-> "Spacer", style |-> "", text |-> <<>>, data |-> <<>>, height |-> height]

Table(data) ==
    [type |-> "Table", style |-> "", text |-> <<>>, data |-> data, height |-> 0]

\* story.append(Paragraph(info, InfoStyle)) for each line
InfoLines(lines) == [i \in 1..Len(lines) |-> Paragraph(lines[i], "InfoStyle")]

\* the line that is shown only if its optional field is given
OptionalLine(label, opt) == IF Truthy(opt) THEN << <<label, opt[1]>> >> ELSE <<>>

doctor_info(doctor) ==
    << <<"<b>Dr. ", doctor.name, "</b>">>,
       <<"Qualifications: ", doctor.qualifications>>,
       <<"Specialization: ", doctor.specialization>>,
       <<"Registration No: ", doctor.registration_number>>,
       <<"Clinic: ", doctor.clinic_name>>,
       <<"Address: ", doctor.clinic_address>>,
       <<"Phone: ", doctor.phone>> >>

\* an absent patient id shown as a blank
patient_info_blank_id(patient) ==
    << <<"<b>Name:</b> ", patient.name>>,
       <<"<b>Age:</b> ", ToString(patient.age), " years">>,
       <<"<b>Gender:</b> ", patient.gender>>,
       <<"<b>Patient ID:</b> ", OrElse(patient.patient_id, "")>>,
       <<"<b>Phone:</b> ", OrElse(patient.phone, "N/A")>> >>

patient_info(patient) ==
    << <<"<b>Name:</b> ", patient.name>>,
       <<"<b>Age:</b> ", ToString(patient.age), " years">>,
       <<"<b>Gender:</b> ", patient.gender>>,
       <<"<b>Patient ID:</b> ", OrElse(patient.patient_id, "N/A")>>,
       <<"<b>Phone:</b> ", OrElse(patient.phone, "N/A")>> >>

\* the rows in reverse request order
med_data_reversed(req) ==
    << <<"Medication", "Dosage", "Timing", "Duration", "Notes">> >>
    \o [i \in 1..Len(req.medications) |->
            LET med == req.medications[Len(req.medications) + 1 - i]
            IN  <<med.name, med.dosage, med.timing, med.duration, OrElse(med.note, "")>>]

med_data(req) ==
    << <<"Medication", "Dosage", "Timing", "Duration", "Notes">> >>
    \o [i \in 1..Len(req.medications) |->
            LET med == req.medications[i]
            IN  <<med.name, med.dosage, med.timing, med.duration, OrElse(med.note, "")>>]

prescription_flowables(req) ==
    << Paragraph(<<"MEDICAL PRESCRIPTION">>, "CustomHeader"), Spacer(20),
       Paragraph(<<"Doctor Information">>, "CustomSubHeader") >>
    \o InfoLines(doctor_info(req.doctor))
    \o << Spacer(15), Paragraph(<<"Patient Information">>, "CustomSubHeader") >>
    \o InfoLines(patient_info(req.patient))
    \o << Spacer(15),
          Paragraph(<<"Prescription Details">>, "CustomSubHeader"),
          Paragraph(<<"<b>Date:</b> ", req.prescription_date>>, "InfoStyle"),
          Paragraph(<<"<b>Symptoms:</b> ", OrElse(req.symptoms, "N/A")>>, "InfoStyle"),
          Spacer(15),
          Paragraph(<<"Medications">>, "CustomSubHeader"),
          Table(med_data(req)),
          Spacer(15) >>
    \o (IF Truthy(req.advice)
        THEN << Paragraph(<<"Medical Advice">>, "CustomSubHeader"),
                Paragraph(<<req.advice[1]>>, "InfoStyle"), Spacer(15) >>
        ELSE <<>>)
    \o (IF Truthy(req.next_followup)
        THEN << Paragraph(<<"<b>Next Follow-up:</b> ", req.next_followup[1]>>, "BoldInfo") >>
        ELSE <<>>)

prescription_story(req) ==
    [ flowables |-> prescription_flowables(req),
      medications |-> Tail(med_data(req)) ]

\* The item table below its header row
item_data(req) ==
    [i \in 1..Len(req.items) |->
        LET item == req.items[i]
        IN  <<item.description,
              item.quantity,
              Money(req.currency, item.unit_price),
              FormatF(item.discount_percent, 1),
              FormatF(item.tax_percent, 1),
              Money(req.currency, InvoiceItem_total(item))>>]

\* The totals block computed from the line totals as the item table shows
\* them, each already rounded to two places
totals_data_of_shown_lines(req) ==
    LET shown(x) == Norm(x.neg, Quantize(x, 2), -2)
    IN  << <<"Subtotal:", Money(req.currency, InvoiceRequest_subtotal(req))>>,
           <<"Total Discount:", Money(req.currency, InvoiceRequest_total_discount(req))>>,
           <<"Total Tax:", Money(req.currency, InvoiceRequest_total_tax(req))>>,
           <<"<b>Total Amount:</b>",
             Money(req.currency,
                   PySum([i \in 1..Len(req.items) |->
                             shown(InvoiceItem_total(req.items[i]))]))>> >>

totals_data(req) ==
    << <<"Subtotal:", Money(req.currency, InvoiceRequest_subtotal(req))>>,
       <<"Total Discount:", Money(req.currency, InvoiceRequest_total_discount(req))>>,
       <<"Total Tax:", Money(req.currency, InvoiceRequest_total_tax(req))>>,
       <<"<b>Total Amount:</b>", Money(req.currency, InvoiceRequest_total_amount(req))>> >>

business_info(business) ==
    << <<"<b>", business.name, "</b>">>,
       <<business.address>>,
       <<"Phone: ", business.phone>>,
       <<"Email: ", business.email>> >>
    \o OptionalLine("Website: ", business.website)
    \o OptionalLine("Tax ID: ", business.tax_id)

customer_info(customer) ==
    << <<"<b>", customer.name, "</b>">>, <<customer.address>> >>
    \o OptionalLine("Phone: ", customer.phone)
    \o OptionalLine("Email: ", customer.email)
    \o OptionalLine("Customer ID: ", customer.customer_id)

payment_info(payment) ==
    << <<"<b>Payment Terms:</b> ", payment.payment_terms>>,
       <<"<b>Due Date:</b> ", payment.due_date>> >>
    \o OptionalLine("<b>Payment Method:</b> ", payment.payment_method)
    \o OptionalLine("<b>Bank Details:</b> ", payment.bank_details)

\* the notes block put before the payment information
invoice_flowables_notes_first(req) ==
    << Paragraph(<<"INVOICE">>, "CustomHeader"), Spacer(20) >>
    \o InfoLines(<< <<"<b>Invoice Number:</b> ", req.invoice_number>>,
                    <<"<b>Invoice Date:</b> ", req.invoice_date>>,
                    <<"<b>Currency:</b> ", req.currency>> >>)
    \o << Spacer(15), Paragraph(<<"From:">>, "CustomSubHeader") >>
    \o InfoLines(business_info(req.business))
    \o << Spacer(15), Paragraph(<<"Bill To:">>, "CustomSubHeader") >>
    \o InfoLines(customer_info(req.customer))
    \o << Spacer(20),
          Paragraph(<<"Items">>, "CustomSubHeader"),
          Table(<< <<"Description", "Qty", "Unit Price", "Discount %", "Tax %", "Total">> >>
                \o item_data(req)),
          Spacer(15),
          Table(totals_data(req)),
          Spacer(20) >>
    \o (IF Truthy(req.notes)
        THEN << Paragraph(<<"Notes">>, "CustomSubHeader"),
                Paragraph(<<req.notes[1]>>, "InfoStyle"), Spacer(15) >>
        ELSE <<>>)
    \o << Paragraph(<<"Payment Information">>, "CustomSubHeader") >>
    \o InfoLines(payment_info(req.payment_info))

invoice_flowables(req) ==
    << Paragraph(<<"INVOICE">>, "CustomHeader"), Spacer(20) >>
    \o InfoLines(<< <<"<b>Invoice Number:</b> ", req.invoice_number>>,
                    <<"<b>Invoice Date:</b> ", req.invoice_date>>,
                    <<"<b>Currency:</b> ", req.currency>> >>)
    \o << Spacer(15), Paragraph(<<"From:">>, "CustomSubHeader") >>
    \o InfoLines(business_info(req.business))
    \o << Spacer(15), Paragraph(<<"Bill To:">>, "CustomSubHeader") >>
    \o InfoLines(customer_info(req.customer))
    \o << Spacer(20),
          Paragraph(<<"Items">>, "CustomSubHeader"),
          Table(<< <<"Description", "Qty", "Unit Price", "Discount %", "Tax %", "Total">> >>
                \o item_data(req)),
          Spacer(15),
          Table(totals_data(req)),
          Spacer(20),
          Paragraph(<<"Payment Information">>, "CustomSubHeader") >>
    \o InfoLines(payment_info(req.payment_info))
    \o (IF Truthy(req.notes)
        THEN << Spacer(15), Paragraph(<<"Notes">>, "CustomSubHeader"),
                Paragraph(<<req.notes[1]>>, "InfoStyle") >>
        ELSE <<>>)

invoice_story(req) ==
    [ flowables |-> invoice_flowables(req),
      items |-> item_data(req),
      totals |-> totals_data(req) ]

\* the date kept digit by digit, everything else dropped
prescription_filename_digits_only(req) ==
    <<"prescription_">> \o ReplaceSpaces(req.patient.name) \o <<"_">>
    \o SelectSeq(req.prescription_date,
                 LAMBDA c : c \in {"0", "1", "2", "3", "4", "5", "6", "7", "8", "9"})
    \o <<".pdf">>

prescription_filename(req) ==
    <<"prescription_">> \o ReplaceSpaces(req.patient.name) \o <<"_">>
    \o req.prescription_date \o <<".pdf">>

invoice_filename(req) ==
    <<"invoice_">> \o req.invoice_number \o <<"_">>
    \o ReplaceSpaces(req.customer.name) \o <<".pdf">>

\* The body of the try block: the story, the render, the response
try_generate(story, filename, success_message, engine) ==
    IF engine.tag = "asm_error" THEN Raise(<<engine.err>>)
    ELSE LET pdf == generate_pdf_bytes(story, engine)
         IN  IF pdf.raised THEN pdf
             ELSE Return(create_pdf_response(pdf.value, filename, success_message))

\* no except clause: the exception leaves the operation
except_nothing(attempt, prefix) == attempt

\* except Exception as e: return PDFResponse(success=False, ...)
except_failure(attempt, prefix) ==
    IF attempt.raised
    THEN Return(failure_response(<<prefix>> \o attempt.error))
    ELSE attempt

generate_prescription_pdf(req, engine) ==
    except_failure(
        try_generate(prescription_story(req), prescription_filename(req),
                     "Prescription PDF generated successfully", engine),
        "Failed to generate prescription PDF: ")

generate_invoice_pdf(req, engine) ==
    except_failure(
        try_generate(invoice_story(req), invoice_filename(req),
                     "Invoice PDF generated successfully", engine),
        "Failed to generate invoice PDF: ")

\* The document model handed to the renderer, if assembly got that far
StoryOf(req, engine) ==
    IF engine.tag = "asm_error" THEN None
    ELSE IF req.kind = "invoice" THEN Some(invoice_story(req))
    ELSE Some(prescription_story(req))

(***************************************************************************)
(* app/api/v1/endpoints/pdf.py and the handlers of main.py                 *)
(***************************************************************************)
\* main.http_exception_handler
http_exception(status_code, detail) ==
    [ status |-> status_code,
      content |-> [error |-> TRUE, message |-> detail, status_code |-> status_code] ]

\* the success flag not looked at: whatever the core returned goes out as 200
endpoint_unchecked(called, unexpected_prefix) ==
    IF called.raised
    THEN http_exception(500, <<unexpected_prefix>> \o called.error)
    ELSE [status |-> 200, content |-> called.value]

\* The endpoint body around the service call
endpoint(called, unexpected_prefix) ==
    IF called.raised
    THEN http_exception(500, <<unexpected_prefix>> \o called.error)
    ELSE IF ~called.value.success
    THEN http_exception(500, called.value.message)
    ELSE [status |-> 200, content |-> called.value]

\* The framework's answer to a body the schema rejects
validation_error == [status |-> 422, content |-> [error |-> TRUE]]

VARIABLES
    phase,          \* "idle" or "responded"
    request,        \* the request being answered
    engine,         \* what the rendering engine did for it
    story,          \* the document model handed to the renderer
    result,         \* what the core operation returned or raised
    http,           \* the HTTP response
    failed_before,  \* has an earlier request ended in a core failure?
    importable,     \* the packages the process can import
    styles,         \* pdf_service.styles, the shared service instance's state
    tasks,          \* the generation calls running side by side, one per thread
    fake_users_db,  \* user_service.fake_users_db: email key -> stored record
    user_id_counter,\* user_service.user_id_counter
    id_log,         \* the ids created and deleted so far, in the order it happened
    now,            \* datetime.utcnow(), in minutes since the process started
    tokens,         \* the access token the client holds, with the id it was issued to
    calls,          \* the user-service calls running side by side, one per thread
    password_of     \* id -> the password its owner chose last (kept by the owners)

httpVars == <<phase, request, engine, story, result, http, failed_before>>

userVars == <<fake_users_db, user_id_counter, id_log, password_of>>

authVars == <<now, tokens>>

vars == <<phase, request, engine, story, result, http, failed_before,
          importable, styles, tasks, fake_users_db, user_id_counter, id_log,
          now, tokens, calls, password_of>>

\* The packages the modules of the service import by name
Packages == {"reportlab", "weasyprint", "jinja2"}

\* pdf_service.py imports ReportLab at module level and main.py imports the
\* PDF router, so the process answers requests only where ReportLab imports
ServiceUp == "reportlab" \in importable

\* getSampleStyleSheet() plus the four styles _setup_custom_styles adds;
\* only the names the two documents look up are kept
pdf_service_styles ==
    {"Normal", "Heading1", "Heading2",
     "CustomHeader", "CustomSubHeader", "InfoStyle", "BoldInfo"}

\* No generation call is running
IdleTask ==
    [pc |-> "idle", req |-> None, eng |-> NoEngine, story |-> None,
     pdf |-> None, result |-> None]

\* fake_users_db = {} and user_id_counter = 1
EmptyStore == [e \in {} |-> None]

\* one step of the clock: a minute more than a token lasts
TickMinutes == ACCESS_TOKEN_EXPIRE_MINUTES + 1

\* No call of the user service is running
IdleCall == [pc |-> "idle", op |-> "", arg |-> None, seen |-> None, outcome |-> None]

HttpInit ==
    /\ phase = "idle"
    /\ request = None
    /\ engine = NoEngine
    /\ story = None
    /\ result = None
    /\ http = None
    /\ failed_before = FALSE

ServiceInit ==
    /\ styles = pdf_service_styles
    /\ tasks = [w \in 1..MaxThreads |-> IdleTask]

UserInit ==
    /\ fake_users_db = EmptyStore
    /\ user_id_counter = 1
    /\ id_log = <<>>
    /\ now = 0
    /\ tokens = {}
    /\ calls = [w \in 1..MaxThreads |-> IdleCall]
    /\ password_of = EmptyStore

Init ==
    /\ HttpInit
    /\ importable = Packages
    /\ ServiceInit
    /\ UserInit

\* What a request for a document leaves alone
GenerationFrame ==
    UNCHANGED <<importable, styles, tasks, fake_users_db, user_id_counter, id_log,
                now, tokens, calls, password_of>>

Rejected(req) ==
    /\ phase' = "responded"
    /\ request' = Some(req)
    /\ engine' = NoEngine
    /\ story' = None
    /\ result' = None
    /\ http' = Some(validation_error)
    /\ UNCHANGED failed_before
    /\ GenerationFrame

Answered(req, eng, called, unexpected_prefix) ==
    /\ phase' = "responded"
    /\ request' = Some(req)
    /\ engine' = eng
    /\ story' = StoryOf(req, eng)
    /\ result' = Some(called)
    /\ http' = Some(endpoint(called, unexpected_prefix))
    /\ UNCHANGED failed_before
    /\ GenerationFrame

\* POST /pdf/prescription
PostPrescription ==
    /\ ServiceUp
    /\ phase = "idle"
    /\ \E req \in PrescriptionRequests, eng \in EngineBehaviours :
        IF ValidPrescriptionRequest(req)
        THEN Answered(req, eng, generate_prescription_pdf(req, eng),
                      "Unexpected error during prescription PDF generation: ")
        ELSE Rejected(req)

\* POST /pdf/invoice
PostInvoice ==
    /\ ServiceUp
    /\ phase = "idle"
    /\ \E req \in InvoiceRequests, eng \in EngineBehaviours :
        IF ValidInvoiceRequest(req)
        THEN Answered(req, eng, generate_invoice_pdf(req, eng),
                      "Unexpected error during invoice PDF generation: ")
        ELSE Rejected(req)

CoreFailed ==
    result # None /\ (result[1].raised \/ ~result[1].value.success)

\* The response leaves and the worker waits for the next request
SendResponse ==
    /\ phase = "responded"
    /\ phase' = "idle"
    /\ request' = None
    /\ engine' = NoEngine
    /\ story' = None
    /\ result' = None
    /\ http' = None
    /\ failed_before' = (failed_before \/ CoreFailed)
    /\ GenerationFrame

Next == PostPrescription \/ PostInvoice \/ SendResponse

Spec == Init /\ [][Next]_vars

(***************************************************************************)
(* GET /pdf/health (app/api/v1/endpoints/pdf.py) in a process whose        *)
(* environment may lack some of the packages.                              *)
(***************************************************************************)
\* utils.responses.success_response
success_response(data, message) ==
    [ status |-> 200,
      content |-> [success |-> TRUE, message |-> <<message>>, data |-> data] ]

\* utils.responses.error_response
error_response(message, status_code) ==
    [ status |-> status_code,
      content |-> [success |-> FALSE, message |-> message, error |-> TRUE] ]

\* PDFGenerationService.get_template_info
get_template_info ==
    [ available_templates |-> <<"prescription", "invoice">>,
      pdf_engine |-> "ReportLab",
      supported_formats |-> <<"PDF">> ]

\* package.__version__
VersionOf(package) == <<package, "version">>

\* import package: ImportError where the environment does not hold it
ImportFailure(packages, environment) ==
    IF packages = <<>> THEN None
    ELSE LET missing == SelectSeq(packages, LAMBDA p : p \notin environment)
         IN  IF missing = <<>> THEN None
             ELSE Some(<<"No module named ", missing[1]>>)

\* try: import weasyprint; import jinja2; ... except Exception: 503
pdf_service_health(environment) ==
    LET failure == ImportFailure(<<"weasyprint", "jinja2">>, environment)
    IN  IF failure # None
        THEN error_response(<<"PDF service health check failed: ">> \o failure[1], 503)
        ELSE success_response(
                 [ service |-> "PDF Generation Service",
                   status |-> "healthy",
                   dependencies |-> {VersionOf("weasyprint"), VersionOf("jinja2")},
                   templates |-> get_template_info ],
                 "PDF service is healthy and operational")

HealthRequest == [kind |-> "health"]

\* GET /pdf/health
GetHealth ==
    /\ ServiceUp
    /\ phase = "idle"
    /\ phase' = "responded"
    /\ request' = Some(HealthRequest)
    /\ engine' = NoEngine
    /\ story' = None
    /\ result' = None
    /\ http' = Some(pdf_service_health(importable))
    /\ UNCHANGED failed_before
    /\ GenerationFrame

\* the process starts in any environment
HealthInit ==
    /\ HttpInit
    /\ importable \in SUBSET Packages
    /\ ServiceInit
    /\ UserInit

HealthNext == GetHealth \/ PostPrescription \/ SendResponse

HealthSpec == HealthInit /\ [][HealthNext]_vars

(***************************************************************************)
(* Generation calls on independent threads.  Each call keeps its story,    *)
(* its buffer and its response in locals; the one object the calls share   *)
(* is the pdf_service instance, whose styles every story looks up.  A call *)
(* is taken in the steps of the try block: the story is assembled, the     *)
(* document is built, the response is created, the call returns.           *)
(***************************************************************************)
FullDetails == <<Some("Chest pain"), Some("Rest and fluids"), Some("2024-02-15")>>

\* the validated requests the threads are handed: a prescription with and
\* without its optional sections, and an invoice
ThreadRequests ==
    { r \in PrescriptionRequests :
        /\ r.medications = <<Medication("Amlodipine 5mg", "1-0-0", "After Food",
                                        "30 days", Some("For BP control"))>>
        /\ r.patient.phone # None
        /\ r.prescription_date[3] = "-"
        /\ <<r.symptoms, r.advice, r.next_followup>> \in {FullDetails, <<None, None, None>>} }
    \cup
    { InvoiceRequest(n, p, <<i>>) :
        n \in InvoiceNumbers, p \in FullParties,
        i \in { it \in PlainItems : it.description = "Domain Registration" } }

\* the engine at its longest output, and its two failures
ThreadEngines == { e \in EngineBehaviours : e.tag = "bytes" => Len(e.bytes) = MaxPdfLen }

document_story(req) ==
    IF req.kind = "invoice" THEN invoice_story(req) ELSE prescription_story(req)

document_filename(req) ==
    IF req.kind = "invoice" THEN invoice_filename(req) ELSE prescription_filename(req)

success_message(req) ==
    IF req.kind = "invoice" THEN "Invoice PDF generated successfully"
    ELSE "Prescription PDF generated successfully"

failure_prefix(req) ==
    IF req.kind = "invoice" THEN "Failed to generate invoice PDF: "
    ELSE "Failed to generate prescription PDF: "

\* The call run with nothing beside it
generate_alone(req, eng) ==
    IF req.kind = "invoice" THEN generate_invoice_pdf(req, eng)
    ELSE generate_prescription_pdf(req, eng)

\* the styles a story's paragraphs were built with: self.styles[name]
StylesUsed(flowables) ==
    { flowables[i].style : i \in { j \in 1..Len(flowables) : flowables[j].type = "Paragraph" } }

\* Paragraph(text, self.styles[name]) for every paragraph of the story: a
\* name the stylesheet does not hold raises KeyError
assemble(req, eng, stylesheet) ==
    IF eng.tag = "asm_error" THEN Raise(<<eng.err>>)
    ELSE IF ~(StylesUsed(document_story(req).flowables) \subseteq stylesheet)
    THEN Raise(<<"Style not found in stylesheet">>)
    ELSE Return(document_story(req))

SetTask(w, task) ==
    /\ tasks' = [tasks EXCEPT ![w] = task]
    /\ UNCHANGED <<httpVars, importable, fake_users_db, user_id_counter, id_log,
                   now, tokens, calls, password_of>>

\* a thread enters generate_prescription_pdf or generate_invoice_pdf
CallGenerate(w) ==
    /\ ServiceUp
    /\ tasks[w].pc = "idle"
    /\ \E req \in ThreadRequests, eng \in ThreadEngines :
        SetTask(w, [IdleTask EXCEPT !.pc = "assembling", !.req = Some(req), !.eng = eng])
    /\ UNCHANGED styles

\* the story's block of style lookups that also drops a style from the
\* shared stylesheet
AssembleStoryDroppingStyle(w) ==
    /\ tasks[w].pc = "assembling"
    /\ LET t == tasks[w]
           built == assemble(t.req[1], t.eng, styles)
       IN  IF built.raised
           THEN SetTask(w, [t EXCEPT !.pc = "returned",
                              !.result = Some(except_failure(built, failure_prefix(t.req[1])))])
           ELSE SetTask(w, [t EXCEPT !.pc = "rendering", !.story = Some(built.value)])
    /\ styles' = styles \ {"InfoStyle"}

\* the story stamped with the thread that assembled it
AssembleStoryStamped(w) ==
    /\ tasks[w].pc = "assembling"
    /\ LET t == tasks[w]
           built == assemble(t.req[1], t.eng, styles)
       IN  IF built.raised
           THEN SetTask(w, [t EXCEPT !.pc = "returned",
                              !.result = Some(except_failure(built, failure_prefix(t.req[1])))])
           ELSE SetTask(w, [t EXCEPT !.pc = "rendering",
                              !.story = Some([built.value EXCEPT
                                  !.flowables = Append(@, Spacer(w))])])
    /\ UNCHANGED styles

\* story = [] and its appends; an exception goes to the except clause
AssembleStory(w) ==
    /\ tasks[w].pc = "assembling"
    /\ LET t == tasks[w]
           built == assemble(t.req[1], t.eng, styles)
       IN  IF built.raised
           THEN SetTask(w, [t EXCEPT !.pc = "returned",
                              !.result = Some(except_failure(built, failure_prefix(t.req[1])))])
           ELSE SetTask(w, [t EXCEPT !.pc = "rendering", !.story = Some(built.value)])
    /\ UNCHANGED styles

\* pdf_bytes = self._generate_pdf_bytes(story)
BuildDocument(w) ==
    /\ tasks[w].pc = "rendering"
    /\ LET t == tasks[w]
           pdf == generate_pdf_bytes(t.story[1], t.eng)
       IN  IF pdf.raised
           THEN SetTask(w, [t EXCEPT !.pc = "returned",
                              !.result = Some(except_failure(pdf, failure_prefix(t.req[1])))])
           ELSE SetTask(w, [t EXCEPT !.pc = "responding", !.pdf = Some(pdf.value)])
    /\ UNCHANGED styles

\* the filename and self._create_pdf_response(pdf_bytes, filename, ...)
CreateResponse(w) ==
    /\ tasks[w].pc = "responding"
    /\ LET t == tasks[w]
       IN  SetTask(w, [t EXCEPT !.pc = "returned",
                         !.result = Some(Return(create_pdf_response(
                             t.pdf[1], document_filename(t.req[1]),
                             success_message(t.req[1]))))])
    /\ UNCHANGED styles

\* the call's locals go with its frame
ReturnToCaller(w) ==
    /\ tasks[w].pc = "returned"
    /\ SetTask(w, IdleTask)
    /\ UNCHANGED styles

ThreadsNext ==
    \E w \in 1..MaxThreads :
        \/ CallGenerate(w)
        \/ AssembleStory(w)
        \/ BuildDocument(w)
        \/ CreateResponse(w)
        \/ ReturnToCaller(w)

ThreadsSpec == Init /\ [][ThreadsNext]_vars

(***************************************************************************)
(* app/services/user_service.py: the in-memory user store                  *)
(***************************************************************************)
Emails == {"ann@example.com", "bob@example.com"}

Passwords == {"correct horse", "battery staple"}

\* pwd_context.hash: the stored text is never the password itself
get_password_hash(password) == <<"$2b$", password>>

\* pwd_context.verify
verify_password(plain_password, hashed_password) ==
    hashed_password = get_password_hash(plain_password)

UserCreate(email, password) ==
    [email |-> email, password |-> password, is_active |-> TRUE]

UserCreates == { UserCreate(e, p) : e \in Emails, p \in Passwords }

\* UserUpdate with the fields the request set: Some(v) for a field given,
\* None for one left unset (full_name, a plain field like is_active, is left out)
UserUpdate(email, is_active, password) ==
    [email |-> email, is_active |-> is_active, password |-> password]

\* requests that set nothing, one field, or email and password together
UserUpdates ==
    {UserUpdate(None, None, None), UserUpdate(None, Some(FALSE), None),
     UserUpdate(None, Some(TRUE), None)}
    \cup { UserUpdate(Some(e), None, None) : e \in Emails }
    \cup { UserUpdate(None, None, Some(p)) : p \in Passwords }
    \cup { UserUpdate(Some(e), None, Some(p)) : e \in Emails, p \in Passwords }

\* User(**user_data): the public schema declares no hashed_password
User(user_data) ==
    [ id |-> user_data.id, email |-> user_data.email, is_active |-> user_data.is_active,
      created_at |-> user_data.created_at, updated_at |-> user_data.updated_at ]

\* UserInDB(**user_data): every stored field
UserInDB(user_data) == user_data

\* fake_users_db.get(email)
get_user_by_email(db, email) ==
    IF email \in DOMAIN db THEN Some(UserInDB(db[email])) ELSE None

\* the keys whose record carries the id; the loops stop at the first
KeysOfId(db, user_id) == { k \in DOMAIN db : db[k].id = user_id }

\* get_user_by_email, then verify_password against the record found
authenticate_user(db, email, password) ==
    LET user == get_user_by_email(db, email)
    IN  IF user = None THEN None
        ELSE IF ~verify_password(password, user[1].hashed_password) THEN None
        ELSE user

\* the id taken from the number of stored users
create_user_counting_stored(db, counter, user_create, utcnow) ==
    IF get_user_by_email(db, user_create.email) # None
    THEN [raised |-> TRUE, db |-> db, counter |-> counter, user |-> None]
    ELSE LET user_data ==
                 [ id |-> Cardinality(DOMAIN db) + 1,
                   email |-> user_create.email,
                   is_active |-> user_create.is_active,
                   hashed_password |-> get_password_hash(user_create.password),
                   created_at |-> utcnow,
                   updated_at |-> utcnow ]
         IN  [ raised |-> FALSE,
               db |-> [k \in DOMAIN db \cup {user_create.email} |->
                          IF k = user_create.email THEN user_data ELSE db[k]],
               counter |-> counter + 1,
               user |-> Some(User(user_data)) ]

\* raises HTTPException(400, "Email already registered") or stores the new
\* record under its email and steps the counter
create_user(db, counter, user_create, utcnow) ==
    IF get_user_by_email(db, user_create.email) # None
    THEN [raised |-> TRUE, db |-> db, counter |-> counter, user |-> None]
    ELSE LET user_data ==
                 [ id |-> counter,
                   email |-> user_create.email,
                   is_active |-> user_create.is_active,
                   hashed_password |-> get_password_hash(user_create.password),
                   created_at |-> utcnow,
                   updated_at |-> utcnow ]
         IN  [ raised |-> FALSE,
               db |-> [k \in DOMAIN db \cup {user_create.email} |->
                          IF k = user_create.email THEN user_data ELSE db[k]],
               counter |-> counter + 1,
               user |-> Some(User(user_data)) ]

\* the new password written to the record as it came
Updated_keeping_plaintext(user_data, user_update, utcnow) ==
    [ id |-> user_data.id,
      email |-> IF user_update.email # None
                THEN user_update.email[1] ELSE user_data.email,
      is_active |-> IF user_update.is_active # None
                    THEN user_update.is_active[1] ELSE user_data.is_active,
      hashed_password |->
          IF user_update.password # None
          THEN user_update.password[1]
          ELSE user_data.hashed_password,
      created_at |-> user_data.created_at,
      updated_at |-> utcnow ]

\* the record after user_data.update(update_data)
Updated(user_data, user_update, utcnow) ==
    [ id |-> user_data.id,
      email |-> IF user_update.email # None
                THEN user_update.email[1] ELSE user_data.email,
      is_active |-> IF user_update.is_active # None
                    THEN user_update.is_active[1] ELSE user_data.is_active,
      hashed_password |->
          IF user_update.password # None
          THEN get_password_hash(user_update.password[1])
          ELSE user_data.hashed_password,
      created_at |-> user_data.created_at,
      updated_at |-> utcnow ]

\* the update that also stamps created_at
update_user_restamping(db, user_id, user_update, utcnow) ==
    IF KeysOfId(db, user_id) = {} THEN [db |-> db, user |-> None]
    ELSE LET user_email == CHOOSE k \in KeysOfId(db, user_id) : TRUE
             updated == [Updated(db[user_email], user_update, utcnow)
                            EXCEPT !.created_at = utcnow]
         IN  [db |-> [db EXCEPT ![user_email] = updated], user |-> Some(User(updated))]

\* user_data.update(update_data) on the record found by id, which stays
\* under the key it was found at; None where no record has the id
update_user(db, user_id, user_update, utcnow) ==
    IF KeysOfId(db, user_id) = {} THEN [db |-> db, user |-> None]
    ELSE LET user_email == CHOOSE k \in KeysOfId(db, user_id) : TRUE
             updated == Updated(db[user_email], user_update, utcnow)
         IN  [db |-> [db EXCEPT ![user_email] = updated], user |-> Some(User(updated))]

\* del fake_users_db[email] for the record found by id
delete_user(db, user_id) ==
    IF KeysOfId(db, user_id) = {} THEN db
    ELSE LET user_email == CHOOSE k \in KeysOfId(db, user_id) : TRUE
         IN  [k \in DOMAIN db \ {user_email} |-> db[k]]

\* what the owners remember: the password given at registration ...
Chosen(known, called, user_create) ==
    IF called.raised THEN known
    ELSE [i \in DOMAIN known \cup {called.user[1].id} |->
             IF i = called.user[1].id THEN user_create.password ELSE known[i]]

\* ... and the one a later update set
Rechosen(known, db, user_id, user_update) ==
    IF KeysOfId(db, user_id) = {} \/ user_update.password = None THEN known
    ELSE [known EXCEPT ![user_id] = user_update.password[1]]

\* an account that is gone has no password to remember
Forgotten(known, user_id) == [i \in DOMAIN known \ {user_id} |-> known[i]]

UserFrame == UNCHANGED <<httpVars, importable, styles, tasks, tokens, calls>>

\* time passes: one step of the clock outlasts a token
Tick ==
    /\ now < MaxTicks * TickMinutes
    /\ now' = now + TickMinutes
    /\ UNCHANGED <<httpVars, importable, styles, tasks, userVars, tokens, calls>>

CreateUser ==
    /\ user_id_counter <= MaxUsers
    /\ \E user_create \in UserCreates :
        LET called == create_user(fake_users_db, user_id_counter, user_create, now)
        IN  /\ fake_users_db' = called.db
            /\ user_id_counter' = called.counter
            /\ id_log' = IF called.raised THEN id_log
                         ELSE Append(id_log, [op |-> "created", id |-> called.user[1].id])
            /\ password_of' = Chosen(password_of, called, user_create)
    /\ UNCHANGED now
    /\ UserFrame

UpdateUser ==
    /\ \E user_id \in 1..MaxUsers, user_update \in UserUpdates :
        /\ fake_users_db' = update_user(fake_users_db, user_id, user_update, now).db
        /\ password_of' = Rechosen(password_of, fake_users_db, user_id, user_update)
    /\ UNCHANGED <<user_id_counter, id_log, now>>
    /\ UserFrame

DeleteUser ==
    /\ \E user_id \in 1..MaxUsers :
        /\ fake_users_db' = delete_user(fake_users_db, user_id)
        /\ id_log' = IF KeysOfId(fake_users_db, user_id) = {} THEN id_log
                     ELSE Append(id_log, [op |-> "deleted", id |-> user_id])
        /\ password_of' = IF KeysOfId(fake_users_db, user_id) = {} THEN password_of
                          ELSE Forgotten(password_of, user_id)
    /\ UNCHANGED <<user_id_counter, now>>
    /\ UserFrame

UserNext == CreateUser \/ UpdateUser \/ DeleteUser \/ Tick

UserSpec == Init /\ [][UserNext]_vars

(***************************************************************************)
(* Calls of the user service on independent threads.  The module keeps     *)
(* fake_users_db and user_id_counter in globals and takes no lock, so each *)
(* read and each write of a call is a step of its own.                     *)
(***************************************************************************)
\* the calls the threads make: registrations with one password, one update
\* of the active switch, deletions
RaceCalls ==
    { [op |-> "create_user", arg |-> UserCreate(e, "correct horse")] : e \in Emails }
    \cup { [op |-> "update_user",
            arg |-> [user_id |-> i, user_update |-> UserUpdate(None, Some(FALSE), None)]] :
            i \in 1..MaxUsers }
    \cup { [op |-> "delete_user", arg |-> [user_id |-> i]] : i \in 1..MaxUsers }

SetCall(w, call) ==
    /\ calls' = [calls EXCEPT ![w] = call]
    /\ UNCHANGED <<httpVars, importable, styles, tasks, id_log, password_of, now, tokens>>

At(w, op, pc) == calls[w].op = op /\ calls[w].pc = pc

\* a thread enters create_user, update_user or delete_user
CallUserService(w) ==
    /\ calls[w].pc = "idle"
    /\ \E c \in RaceCalls :
        /\ c.op = "create_user" => user_id_counter <= MaxUsers
        /\ SetCall(w, [IdleCall EXCEPT !.pc = "entered", !.op = c.op, !.arg = Some(c.arg)])
    /\ UNCHANGED <<fake_users_db, user_id_counter>>

\* if UserService.get_user_by_email(user_create.email): raise HTTPException
CreateCheck(w) ==
    /\ At(w, "create_user", "entered")
    /\ IF get_user_by_email(fake_users_db, calls[w].arg[1].email) # None
       THEN SetCall(w, [calls[w] EXCEPT !.pc = "done",
                           !.outcome = Some(Raise("Email already registered"))])
       ELSE SetCall(w, [calls[w] EXCEPT !.pc = "checked"])
    /\ UNCHANGED <<fake_users_db, user_id_counter>>

\* user_data = {"id": user_id_counter, ...}: the counter is read
CreateBuild(w) ==
    /\ At(w, "create_user", "checked")
    /\ LET user_create == calls[w].arg[1]
           user_data == [ id |-> user_id_counter,
                          email |-> user_create.email,
                          is_active |-> user_create.is_active,
                          hashed_password |-> get_password_hash(user_create.password),
                          created_at |-> now,
                          updated_at |-> now ]
       IN  SetCall(w, [calls[w] EXCEPT !.pc = "built", !.seen = Some(user_data)])
    /\ UNCHANGED <<fake_users_db, user_id_counter>>

\* fake_users_db[user_create.email] = user_data
CreateStore(w) ==
    /\ At(w, "create_user", "built")
    /\ LET email == calls[w].arg[1].email
       IN  fake_users_db' = [k \in DOMAIN fake_users_db \cup {email} |->
                                IF k = email THEN calls[w].seen[1] ELSE fake_users_db[k]]
    /\ SetCall(w, [calls[w] EXCEPT !.pc = "stored"])
    /\ UNCHANGED user_id_counter

\* user_id_counter += 1: the load ...
CreateLoadCounter(w) ==
    /\ At(w, "create_user", "stored")
    /\ SetCall(w, [calls[w] EXCEPT !.pc = "loaded",
                      !.outcome = Some(Return(user_id_counter))])
    /\ UNCHANGED <<fake_users_db, user_id_counter>>

\* ... and the store of the sum; return User(**user_data)
CreateStoreCounter(w) ==
    /\ At(w, "create_user", "loaded")
    /\ user_id_counter' = calls[w].outcome[1].value + 1
    /\ SetCall(w, [calls[w] EXCEPT !.pc = "done",
                      !.outcome = Some(Return(User(calls[w].seen[1])))])
    /\ UNCHANGED fake_users_db

\* the loop over fake_users_db.items() that looks for the id
FindById(w) ==
    /\ calls[w].op \in {"update_user", "delete_user"}
    /\ calls[w].pc = "entered"
    /\ LET found == KeysOfId(fake_users_db, calls[w].arg[1].user_id)
       IN  IF found = {}
           THEN SetCall(w, [calls[w] EXCEPT !.pc = "done", !.outcome = Some(Return(None))])
           ELSE \E k \in found : SetCall(w, [calls[w] EXCEPT !.pc = "found", !.seen = Some(k)])
    /\ UNCHANGED <<fake_users_db, user_id_counter>>

\* user_data = fake_users_db[user_email]; user_data.update(update_data):
\* KeyError where the key has gone since the loop
UpdateApply(w) ==
    /\ At(w, "update_user", "found")
    /\ LET k == calls[w].seen[1]
       IN  IF k \notin DOMAIN fake_users_db
           THEN /\ SetCall(w, [calls[w] EXCEPT !.pc = "done",
                                  !.outcome = Some(Raise("KeyError"))])
                /\ UNCHANGED fake_users_db
           ELSE LET updated == Updated(fake_users_db[k], calls[w].arg[1].user_update, now)
                IN  /\ fake_users_db' = [fake_users_db EXCEPT ![k] = updated]
                    /\ SetCall(w, [calls[w] EXCEPT !.pc = "done",
                                      !.outcome = Some(Return(Some(User(updated))))])
    /\ UNCHANGED user_id_counter

\* del fake_users_db[email]: KeyError where the key has gone since the loop
DeleteApply(w) ==
    /\ At(w, "delete_user", "found")
    /\ LET k == calls[w].seen[1]
       IN  IF k \notin DOMAIN fake_users_db
           THEN /\ SetCall(w, [calls[w] EXCEPT !.pc = "done",
                                  !.outcome = Some(Raise("KeyError"))])
                /\ UNCHANGED fake_users_db
           ELSE /\ fake_users_db' = [j \in DOMAIN fake_users_db \ {k} |-> fake_users_db[j]]
                /\ SetCall(w, [calls[w] EXCEPT !.pc = "done",
                                  !.outcome = Some(Return(Some(TRUE)))])
    /\ UNCHANGED user_id_counter

\* the caller has its answer
CallReturns(w) ==
    /\ calls[w].pc = "done"
    /\ SetCall(w, IdleCall)
    /\ UNCHANGED <<fake_users_db, user_id_counter>>

RaceNext ==
    \E w \in 1..MaxThreads :
        \/ CallUserService(w)
        \/ CreateCheck(w)
        \/ CreateBuild(w)
        \/ CreateStore(w)
        \/ CreateLoadCounter(w)
        \/ CreateStoreCounter(w)
        \/ FindById(w)
        \/ UpdateApply(w)
        \/ DeleteApply(w)
        \/ CallReturns(w)

RaceSpec == Init /\ [][RaceNext]_vars

(***************************************************************************)
(* app/utils/auth.py and app/api/v1/endpoints/users.py: the user           *)
(* endpoints, one request at a time.  The log of ids is kept for the calls *)
(* of the service alone and stays as it is here; so does the clock, which  *)
(* the endpoints read for the lifetime of a token and for the two          *)
(* timestamps that no endpoint looks at.                                   *)
(***************************************************************************)
\* jwt.encode({"sub": ..., "exp": ...}, SECRET_KEY): a token the service signed
Jwt(sub, exp) == [sub |-> sub, exp |-> exp, signed |-> TRUE]

\* UserService.create_access_token(data={"sub": email}, expires_delta=...)
create_access_token(email, expires_delta, utcnow) == Jwt(email, utcnow + expires_delta)

\* the Authorization header of a request: absent, or a bearer token
NoCredentials == [scheme |-> "none", token |-> Jwt("", 0)]

Bearer(token) == [scheme |-> "bearer", token |-> token]

\* a token the service did not sign
ForgedToken == [sub |-> "ann@example.com", exp |-> MaxTicks * TickMinutes, signed |-> FALSE]

\* a token the service signed more than ACCESS_TOKEN_EXPIRE_MINUTES ago
LapsedToken == Jwt("ann@example.com", now - 1)

\* what a client can send: nothing, a forged token, a token that has lapsed,
\* the token it was issued.
\* The service keeps no record of tokens and a login leaves the store as it
\* is, so one held token at a time reaches every store, clock and token that
\* any number of held tokens reach.
Credentials ==
    {NoCredentials, Bearer(ForgedToken), Bearer(LapsedToken)}
    \cup { Bearer(t.jwt) : t \in tokens }

\* raise HTTPException(status_code, detail)
HTTPException(status_code, detail) == Raise([status_code |-> status_code, detail |-> detail])

\* the expiry left to fall through as an error of the server
verify_token_signature_only(token, utcnow) ==
    IF ~token.signed THEN HTTPException(401, "Could not validate credentials")
    ELSE IF token.exp < utcnow THEN HTTPException(500, "Signature has expired")
    ELSE Return([email |-> token.sub])

\* jwt.decode: JWTError on a bad signature and on exp in the past
verify_token(token, utcnow) ==
    IF ~token.signed \/ token.exp < utcnow
    THEN HTTPException(401, "Could not validate credentials")
    ELSE Return([email |-> token.sub])

\* HTTPBearer(): 403 where the header is missing
security(credentials) ==
    IF credentials.scheme = "none" THEN HTTPException(403, "Not authenticated")
    ELSE Return(credentials.token)

get_current_user(credentials, db, utcnow) ==
    LET bearer == security(credentials)
    IN  IF bearer.raised THEN bearer
        ELSE LET token_data == verify_token(bearer.value, utcnow)
             IN  IF token_data.raised THEN token_data
                 ELSE LET user == get_user_by_email(db, token_data.value.email)
                      IN  IF user = None THEN HTTPException(401, "User not found")
                          ELSE Return(user[1])

\* the dependency without the check of is_active
get_current_active_user_unchecked(credentials, db, utcnow) ==
    get_current_user(credentials, db, utcnow)

get_current_active_user(credentials, db, utcnow) ==
    LET current_user == get_current_user(credentials, db, utcnow)
    IN  IF current_user.raised THEN current_user
        ELSE IF ~current_user.value.is_active THEN HTTPException(400, "Inactive user")
        ELSE current_user

\* json.dumps, which JSONResponse renders its content with, has no encoding
\* for the datetime values of created_at and updated_at
JsonSerializable(data) ==
    \A i \in DOMAIN data : DOMAIN data[i] \cap {"created_at", "updated_at"} = {}

\* JSONResponse(status_code=..., content={"success": True, ...}) of
\* success_response; data is the list of dicts that go into the body
JSONResponse(status_code, message, data) ==
    IF JsonSerializable(data)
    THEN Return([ status |-> status_code,
                  content |-> [success |-> TRUE, message |-> <<message>>, data |-> data] ])
    ELSE Raise("TypeError: Object of type datetime is not JSON serializable")

\* an exception no handler takes: the server's plain 500
InternalServerError == [status |-> 500, content |-> [error |-> TRUE]]

\* the handler of main.py for an HTTPException a dependency or an endpoint raised
Rejection(exc) == http_exception(exc.error.status_code, exc.error.detail)

\* return success_response(data=..., message=...) at the end of an endpoint
Reply(status_code, message, data) ==
    LET response == JSONResponse(status_code, message, data)
    IN  [ handed |-> Return(data),
          http |-> IF response.raised THEN InternalServerError ELSE response.value ]

Refusal(exc) == [handed |-> exc, http |-> Rejection(exc)]

\* register_user: HTTPException is re-raised, anything else becomes a 500
register_user(called) ==
    IF called.raised THEN Refusal(HTTPException(400, "Email already registered"))
    ELSE LET response == JSONResponse(201, "User registered successfully", <<called.user[1]>>)
         IN  [ handed |-> Return(<<called.user[1]>>),
               http |-> IF response.raised
                        THEN http_exception(500, "Failed to create user")
                        ELSE response.value ]

\* login_user and login_for_access_token, which differ in the failure text
\* and the wrapping of the token
login_user(user, form, utcnow) ==
    IF user = None
    THEN Refusal(HTTPException(401, IF form THEN "Incorrect username or password"
                                    ELSE "Incorrect email or password"))
    ELSE LET access_token ==
                 create_access_token(user[1].email, ACCESS_TOKEN_EXPIRE_MINUTES, utcnow)
             token_data == [access_token |-> access_token, token_type |-> "bearer"]
         IN  IF form THEN [handed |-> Return(<<token_data>>),
                           http |-> [status |-> 200, content |-> token_data]]
             ELSE Reply(200, "Login successful", <<token_data>>)

\* get_current_user_info: current_user.dict() of the UserInDB the dependency gave
get_current_user_info(current_user) ==
    Reply(200, "User profile retrieved successfully", <<current_user>>)

\* UserService.get_all_users in a fixed order of the keys
RECURSIVE AllUsers(_, _)
AllUsers(db, keys) ==
    IF keys = {} THEN <<>>
    ELSE LET k == CHOOSE x \in keys : \A y \in keys : db[x].id <= db[y].id
         IN  <<User(db[k])>> \o AllUsers(db, keys \ {k})

get_all_users(db) ==
    Reply(200, "Retrieved users successfully", AllUsers(db, DOMAIN db))

get_user_by_id(db, user_id) ==
    IF KeysOfId(db, user_id) = {} THEN Refusal(HTTPException(404, "User not found"))
    ELSE LET k == CHOOSE x \in KeysOfId(db, user_id) : TRUE
         IN  Reply(200, "User retrieved successfully", <<User(db[k])>>)

ApiFrame == UNCHANGED <<engine, story, failed_before, importable, styles, tasks, calls>>

Answer(req, outcome) ==
    /\ phase' = "responded"
    /\ request' = Some(req)
    /\ result' = Some(outcome.handed)
    /\ http' = Some(outcome.http)
    /\ ApiFrame

\* POST /auth/register
Register ==
    /\ phase = "idle"
    /\ user_id_counter <= MaxUsers
    /\ \E e \in Emails :
        LET user_create == UserCreate(e, "correct horse")
            called == create_user(fake_users_db, user_id_counter, user_create, now)
        IN  /\ fake_users_db' = called.db
            /\ user_id_counter' = called.counter
            /\ password_of' = Chosen(password_of, called, user_create)
            /\ Answer([kind |-> "register", credentials |-> NoCredentials,
                       user_id |-> 0, body |-> user_create, caller |-> None],
                      register_user(called))
    /\ UNCHANGED <<id_log, now, tokens>>

\* POST /auth/login and POST /auth/token
Login ==
    /\ phase = "idle"
    /\ \E e \in Emails, p \in Passwords, form \in BOOLEAN :
        LET user == authenticate_user(fake_users_db, e, p)
            outcome == login_user(user, form, now)
        IN  /\ tokens' = IF user = None THEN tokens
                         ELSE {[jwt |-> outcome.handed.value[1].access_token,
                                issued_to |-> user[1].id]}
            /\ Answer([kind |-> IF form THEN "token" ELSE "login",
                       credentials |-> NoCredentials, user_id |-> 0,
                       body |-> [email |-> e, password |-> p], caller |-> None],
                      outcome)
    /\ UNCHANGED <<userVars, now>>

\* a request to a protected endpoint: the dependency, then the endpoint
Protected(kind, credentials, user_id, body, outcome_for(_)) ==
    LET current_user == get_current_active_user(credentials, fake_users_db, now)
    IN  IF current_user.raised
        THEN Answer([kind |-> kind, credentials |-> credentials, user_id |-> user_id,
                     body |-> body, caller |-> None],
                    Refusal(current_user))
        ELSE Answer([kind |-> kind, credentials |-> credentials, user_id |-> user_id,
                     body |-> body, caller |-> Some(current_user.value.id)],
                    outcome_for(current_user.value))

\* GET /users/me
GetMe ==
    /\ phase = "idle"
    /\ \E c \in Credentials :
        Protected("me", c, 0, None, LAMBDA u : get_current_user_info(u))
    /\ UNCHANGED <<userVars, authVars>>

\* GET /users
GetUsers ==
    /\ phase = "idle"
    /\ \E c \in Credentials :
        Protected("list", c, 0, None, LAMBDA u : get_all_users(fake_users_db))
    /\ UNCHANGED <<userVars, authVars>>

\* GET /users/{user_id}
GetUser ==
    /\ phase = "idle"
    /\ \E c \in Credentials, user_id \in 1..MaxUsers :
        Protected("get", c, user_id, None, LAMBDA u : get_user_by_id(fake_users_db, user_id))
    /\ UNCHANGED <<userVars, authVars>>

\* the updates the clients ask for
ApiUpdates ==
    { UserUpdate(Some(e), None, None) : e \in Emails }
    \cup {UserUpdate(None, Some(FALSE), None), UserUpdate(None, None, Some("battery staple"))}

\* update_user of users.py: 403 for another id, 404 for none, else the update
update_endpoint(current_user, db, user_id, user_update, utcnow) ==
    IF current_user.id # user_id
    THEN [db |-> db, performed |-> FALSE,
          outcome |-> Refusal(HTTPException(403, "Not authorized to update this user"))]
    ELSE LET called == update_user(db, user_id, user_update, utcnow)
         IN  IF called.user = None
             THEN [db |-> db, performed |-> FALSE,
                   outcome |-> Refusal(HTTPException(404, "User not found"))]
             ELSE [db |-> called.db, performed |-> TRUE,
                   outcome |-> Reply(200, "User updated successfully", <<called.user[1]>>)]

\* delete_user of users.py: 403 for another id, 404 for none, else the removal
delete_endpoint(current_user, db, user_id) ==
    IF current_user.id # user_id
    THEN [db |-> db, performed |-> FALSE,
          outcome |-> Refusal(HTTPException(403, "Not authorized to delete this user"))]
    ELSE IF KeysOfId(db, user_id) = {}
    THEN [db |-> db, performed |-> FALSE,
          outcome |-> Refusal(HTTPException(404, "User not found"))]
    ELSE [db |-> delete_user(db, user_id), performed |-> TRUE,
          outcome |-> Reply(200, "User deleted successfully",
                            <<[deleted_user_id |-> user_id]>>)]

\* PUT /users/{user_id}
PutUser ==
    /\ phase = "idle"
    /\ \E c \in Credentials, user_id \in 1..MaxUsers, user_update \in ApiUpdates :
        LET current_user == get_current_active_user(c, fake_users_db, now)
            done == update_endpoint(current_user.value, fake_users_db, user_id,
                                    user_update, now)
        IN  IF current_user.raised
            THEN /\ Protected("update", c, user_id, Some(user_update), LAMBDA u : done.outcome)
                 /\ UNCHANGED <<fake_users_db, password_of>>
            ELSE /\ Protected("update", c, user_id, Some(user_update), LAMBDA u : done.outcome)
                 /\ fake_users_db' = done.db
                 /\ password_of' = IF done.performed
                                   THEN Rechosen(password_of, fake_users_db, user_id, user_update)
                                   ELSE password_of
    /\ UNCHANGED <<user_id_counter, id_log, authVars>>

\* DELETE /users/{user_id}
DeleteUserById ==
    /\ phase = "idle"
    /\ \E c \in Credentials, user_id \in 1..MaxUsers :
        LET current_user == get_current_active_user(c, fake_users_db, now)
            done == delete_endpoint(current_user.value, fake_users_db, user_id)
        IN  IF current_user.raised
            THEN /\ Protected("delete", c, user_id, None, LAMBDA u : done.outcome)
                 /\ UNCHANGED <<fake_users_db, password_of>>
            ELSE /\ Protected("delete", c, user_id, None, LAMBDA u : done.outcome)
                 /\ fake_users_db' = done.db
                 /\ password_of' = IF done.performed THEN Forgotten(password_of, user_id)
                                   ELSE password_of
    /\ UNCHANGED <<user_id_counter, id_log, authVars>>

\* the response leaves; the next request can come
ApiSendResponse ==
    /\ phase = "responded"
    /\ phase' = "idle"
    /\ request' = None
    /\ result' = None
    /\ http' = None
    /\ ApiFrame
    /\ UNCHANGED <<userVars, authVars>>

ApiNext ==
    \/ Register
    \/ Login
    \/ GetMe
    \/ GetUsers
    \/ GetUser
    \/ PutUser
    \/ DeleteUserById
    \/ ApiSendResponse

ApiSpec == Init /\ [][ApiNext]_vars
(***************************************************************************)
(* The values of the claims                                                *)
(***************************************************************************)
InvoicePosted == request # None /\ request[1].kind = "invoice"

PrescriptionPosted == request # None /\ request[1].kind = "prescription"

\* The items of the posted invoice request that pass the item schema
ValidPostedItems ==
    IF InvoicePosted
    THEN {request[1].items[i] : i \in {j \in 1..Len(request[1].items) :
                                          ValidInvoiceItem(request[1].items[j])}}
    ELSE {}

\* The five derived values as arithmetic on unbounded decimals defines them
MathSubtotal(item) == ExactMul(item.quantity, item.unit_price)

MathDiscount(item) ==
    ExactDivHundred(ExactMul(MathSubtotal(item), item.discount_percent))

MathTaxable(item) == ExactSub(MathSubtotal(item), MathDiscount(item))

MathTax(item) == ExactDivHundred(ExactMul(MathTaxable(item), item.tax_percent))

MathTotal(item) == ExactAdd(MathTaxable(item), MathTax(item))

DerivedAreExact(item) ==
    /\ InvoiceItem_subtotal(item) = MathSubtotal(item)
    /\ InvoiceItem_discount_amount(item) = MathDiscount(item)
    /\ InvoiceItem_taxable_amount(item) = MathTaxable(item)
    /\ InvoiceItem_tax_amount(item) = MathTax(item)
    /\ InvoiceItem_total(item) = MathTotal(item)

\* The inputs and the five exact values all fit the context's precision
ItemFits(item) ==
    \A x \in {item.quantity, item.unit_price, item.discount_percent,
              item.tax_percent, MathSubtotal(item), MathDiscount(item),
              MathTaxable(item), MathTax(item), MathTotal(item)} :
        Digits(x) <= Prec

ScenarioA ==
    Item("Web Development Services", Dec(40, 0), Dec(7500, -2), Dec(0, 0), Dec(85, -1))

ScenarioB ==
    Item("Domain Registration", Dec(1, 0), Dec(1500, -2), Dec(0, 0), Dec(85, -1))

ScenarioAValues(item) ==
    /\ InvoiceItem_subtotal(item) = Dec(300000, -2)
    /\ InvoiceItem_discount_amount(item) = DecZero
    /\ InvoiceItem_taxable_amount(item) = Dec(300000, -2)
    /\ InvoiceItem_tax_amount(item) = Dec(25500, -2)
    /\ InvoiceItem_total(item) = Dec(325500, -2)

\* C1 as stated: for every valid InvoiceItem the five derived values are
\* exactly quantity * unit_price, subtotal * discount_percent / 100,
\* subtotal - discount_amount, taxable_amount * tax_percent / 100 and
\* taxable_amount + tax_amount.
C1_Original == \A item \in ValidPostedItems : DerivedAreExact(item)

\* C1 as amended: the five equations hold exactly for every valid InvoiceItem
\* whose inputs and exact derived values have at most 28 significant digits,
\* the precision of the decimal context; scenario A gives 3000.00, 0,
\* 3000.00, 255.00 and 3255.00.
C1_ExactWithinPrecision ==
    \A item \in ValidPostedItems :
        /\ ItemFits(item) => DerivedAreExact(item)
        /\ item = ScenarioA => ScenarioAValues(item)

C1_Witness ==
    /\ phase = "responded"
    /\ \E item \in ValidPostedItems :
        /\ ItemFits(item)
        /\ item.discount_percent # DecZero
        /\ item.tax_percent # DecZero
        /\ InvoiceItem_total(item) # InvoiceItem_subtotal(item)
    /\ ScenarioA \in ValidPostedItems

\* The sum of a list of decimals as arithmetic on unbounded decimals defines it
RECURSIVE MathSum(_)
MathSum(xs) ==
    IF xs = <<>> THEN DecZero
    ELSE ExactAdd(MathSum(SubSeq(xs, 1, Len(xs) - 1)), xs[Len(xs)])

\* Every partial sum fits the context's precision
SumFits(xs) == \A k \in 1..Len(xs) : Digits(MathSum(SubSeq(xs, 1, k))) <= Prec

ItemValues(req, Value(_)) == [i \in 1..Len(req.items) |-> Value(req.items[i])]

ValidInvoicePosted == InvoicePosted /\ ValidInvoiceRequest(request[1])

\* C2 as stated: each document-level total is the sum of the corresponding
\* item-level values.
C2_Original ==
    ValidInvoicePosted =>
        LET req == request[1]
        IN  /\ InvoiceRequest_subtotal(req) = MathSum(ItemValues(req, InvoiceItem_subtotal))
            /\ InvoiceRequest_total_discount(req)
                 = MathSum(ItemValues(req, InvoiceItem_discount_amount))
            /\ InvoiceRequest_total_tax(req) = MathSum(ItemValues(req, InvoiceItem_tax_amount))
            /\ InvoiceRequest_total_amount(req) = MathSum(ItemValues(req, InvoiceItem_total))

\* C2 as amended: each document-level total is the sum of the corresponding
\* item-level values, none of them rounded to cents first, whenever every
\* partial sum has at most 28 significant digits.
C2_SumsWithinPrecision ==
    ValidInvoicePosted =>
        LET req == request[1]
            S == ItemValues(req, InvoiceItem_subtotal)
            D == ItemValues(req, InvoiceItem_discount_amount)
            X == ItemValues(req, InvoiceItem_tax_amount)
            T == ItemValues(req, InvoiceItem_total)
        IN  /\ SumFits(S) => InvoiceRequest_subtotal(req) = MathSum(S)
            /\ SumFits(D) => InvoiceRequest_total_discount(req) = MathSum(D)
            /\ SumFits(X) => InvoiceRequest_total_tax(req) = MathSum(X)
            /\ SumFits(T) => InvoiceRequest_total_amount(req) = MathSum(T)

C2_Witness ==
    /\ phase = "responded"
    /\ ValidInvoicePosted
    /\ Len(request[1].items) >= 2
    /\ SumFits(ItemValues(request[1], InvoiceItem_total))
    /\ InvoiceRequest_total_amount(request[1])
         # InvoiceRequest_total_amount_of_rounded(request[1])

\* subtotal - total_discount + total_tax, on unbounded decimals
MathNet(req) ==
    ExactAdd(ExactSub(InvoiceRequest_subtotal(req), InvoiceRequest_total_discount(req)),
             InvoiceRequest_total_tax(req))

\* No subtraction or addition behind taxable_amount, total or one of the four
\* sums is rounded by the context
NoRoundedAddition(req) ==
    /\ \A i \in 1..Len(req.items) :
        LET item == req.items[i]
        IN  /\ Digits(ExactSub(InvoiceItem_subtotal(item),
                               InvoiceItem_discount_amount(item))) <= Prec
            /\ Digits(ExactAdd(InvoiceItem_taxable_amount(item),
                               InvoiceItem_tax_amount(item))) <= Prec
    /\ SumFits(ItemValues(req, InvoiceItem_subtotal))
    /\ SumFits(ItemValues(req, InvoiceItem_discount_amount))
    /\ SumFits(ItemValues(req, InvoiceItem_tax_amount))
    /\ SumFits(ItemValues(req, InvoiceItem_total))

\* C3 as stated: total_amount = subtotal - total_discount + total_tax for
\* every valid InvoiceRequest.
C3_Original ==
    ValidInvoicePosted => InvoiceRequest_total_amount(request[1]) = MathNet(request[1])

\* C3 as amended: total_amount = subtotal - total_discount + total_tax for
\* every valid InvoiceRequest in which no addition or subtraction is rounded
\* by the 28-digit decimal context.
C3_NetWithinPrecision ==
    (ValidInvoicePosted /\ NoRoundedAddition(request[1]))
        => InvoiceRequest_total_amount(request[1]) = MathNet(request[1])

C3_Witness ==
    /\ phase = "responded"
    /\ ValidInvoicePosted
    /\ NoRoundedAddition(request[1])
    /\ Len(request[1].items) >= 2
    /\ InvoiceRequest_total_discount(request[1]) # DecZero
    /\ InvoiceRequest_total_tax(request[1]) # DecZero

\* The response the core operation returned, when it returned one
CoreReturned == result # None /\ ~result[1].raised

Populated(r) ==
    r.success /\ r.pdf_data # None /\ r.filename # None /\ r.size_bytes # None

WithoutPayload(r) ==
    /\ ~r.success
    /\ r.message # <<>>
    /\ r.pdf_data = None /\ r.filename = None /\ r.size_bytes = None

\* C4: every result of generate_prescription_pdf or generate_invoice_pdf is
\* either fully populated (success with pdf_data, filename and size_bytes) or
\* carries no payload (failure with a message and none of the three); never
\* partially populated.
C4_NeverPartiallyPopulated ==
    result # None =>
        /\ ~result[1].raised
        /\ Populated(result[1].value) \/ WithoutPayload(result[1].value)

C4_Witness ==
    /\ failed_before
    /\ CoreReturned
    /\ WithoutPayload(result[1].value)
    /\ engine.tag = "asm_error"

\* C5: generate_prescription_pdf and generate_invoice_pdf never raise: when
\* assembly or the render step fails, the operation returns success=false
\* with a message that carries the error and no pdf_data, and a later request
\* whose rendering succeeds is answered with success.
C5_NeverRaises ==
    result # None =>
        /\ ~result[1].raised
        /\ engine.tag \in {"asm_error", "render_error"} =>
            LET r == result[1].value
                prefix == IF request[1].kind = "invoice"
                          THEN "Failed to generate invoice PDF: "
                          ELSE "Failed to generate prescription PDF: "
            IN  /\ ~r.success
                /\ r.pdf_data = None
                /\ r.message[1] = prefix
                /\ r.message[Len(r.message)] = engine.err
        /\ engine.tag = "bytes" => result[1].value.success

C5_Witness ==
    /\ phase = "responded"
    /\ engine.tag = "render_error"
    /\ CoreReturned
    /\ ~result[1].value.success
    /\ result[1].value.message
         = <<"Failed to generate prescription PDF: ", "PDF generation failed: ",
             engine.err>>

\* C6: POST /pdf/prescription and POST /pdf/invoice answer 200 with the
\* populated response exactly when the core result has success=true, and 500
\* with the core's message when it has success=false; a success=false body
\* never goes out with status 200.
C6_StatusFollowsSuccess ==
    (result # None /\ http # None) =>
        LET called == result[1]
            answer == http[1]
        IN  /\ (~called.raised /\ called.value.success)
                => (answer.status = 200 /\ answer.content = called.value)
            /\ (~called.raised /\ ~called.value.success)
                => (answer.status = 500 /\ answer.content.message = called.value.message)
            /\ called.raised => answer.status = 500
            /\ answer.status = 200 => answer.content.success

C6_Witness ==
    /\ phase = "responded"
    /\ CoreReturned
    /\ ~result[1].value.success
    /\ http # None
    /\ http[1].status = 500
    /\ http[1].content.message = result[1].value.message

EmptyListPosted ==
    \/ PrescriptionPosted /\ request[1].medications = <<>>
    \/ InvoicePosted /\ request[1].items = <<>>

\* C7: a prescription request with an empty medications list, and an invoice
\* request with an empty items list, is rejected by validation: the generator
\* is not invoked, no document model is built and the answer is 422.
C7_EmptyListRejected ==
    EmptyListPosted =>
        /\ result = None
        /\ story = None
        /\ http # None /\ http[1].status = 422

C7_Witness ==
    /\ phase = "responded"
    /\ PrescriptionPosted
    /\ request[1].medications = <<>>
    /\ http # None /\ http[1].status = 422

IsB64Char(c) == c = "=" \/ \E i \in 1..64 : B64Alphabet[i] = c

\* C8: on success pdf_data is the base64 text of the rendered bytes, decoding
\* it gives back exactly those bytes, size_bytes is their number before the
\* encoding, and content_type is application/pdf.
C8_Base64OfRenderedBytes ==
    (CoreReturned /\ result[1].value.success) =>
        LET r == result[1].value
            text == r.pdf_data[1]
        IN  /\ Len(text) = 4 * ((Len(engine.bytes) + 2) \div 3)
            /\ \A i \in 1..Len(text) : IsB64Char(text[i])
            /\ b64decode(text) = engine.bytes
            /\ r.size_bytes = Some(Len(engine.bytes))
            /\ Len(b64decode(text)) = r.size_bytes[1]
            /\ r.content_type = "application/pdf"

C8_Witness ==
    /\ phase = "responded"
    /\ CoreReturned
    /\ result[1].value.success
    /\ Len(engine.bytes) = 2
    /\ result[1].value.size_bytes = Some(2)
    /\ Len(result[1].value.pdf_data[1]) = 4

\* The Total Amount cell of the document model
ShownTotalAmount == story[1].totals[4][2][2]

\* The line totals as the item table shows them, added up
SumOfShownLines(req) ==
    MathSum([i \in 1..Len(req.items) |->
                LET t == InvoiceItem_total(req.items[i])
                IN  Norm(t.neg, Quantize(t, 2), -2)])

InvoiceAssembled == InvoicePosted /\ story # None

\* The item totals and their sum as arithmetic on unbounded decimals defines
\* them, all within the context's precision
TotalsFit(req) ==
    /\ \A i \in 1..Len(req.items) : ItemFits(req.items[i])
    /\ SumFits(ItemValues(req, MathTotal))

\* C9 as stated: the Total Amount shown on every invoice is the sum of the
\* item totals, computed without rounding, rounded once to two places.
C9_Original ==
    InvoiceAssembled =>
        ShownTotalAmount.units = Quantize(MathSum(ItemValues(request[1], MathTotal)), 2)

\* C9 as amended: the Total Amount shown on an invoice is total_amount
\* rounded once to two places, not the sum of the line totals rounded one by
\* one; total_amount is the unrounded sum of the unrounded item totals
\* whenever the item values and the partial sums have at most 28 significant
\* digits; for 40 x 75.00 and 1 x 15.00 at 8.5% tax item 2 is 16.275 and the
\* total 3271.275, shown as 3271.28.
C9_RoundedOnceAtDisplay ==
    InvoiceAssembled =>
        LET req == request[1]
        IN  /\ ShownTotalAmount.places = 2
            /\ ShownTotalAmount.units = Quantize(InvoiceRequest_total_amount(req), 2)
            /\ TotalsFit(req) =>
                ShownTotalAmount.units = Quantize(MathSum(ItemValues(req, MathTotal)), 2)
            /\ req.items = <<ScenarioA, ScenarioB>> =>
                /\ InvoiceItem_total(req.items[2]) = Dec(16275, -3)
                /\ InvoiceRequest_total_amount(req) = Dec(3271275, -3)
                /\ ShownTotalAmount.units = NatOf(327128)

C9_Witness ==
    /\ phase = "responded"
    /\ InvoiceAssembled
    /\ TotalsFit(request[1])
    /\ Norm(FALSE, ShownTotalAmount.units, -2) # SumOfShownLines(request[1])

PostedItems ==
    IF InvoicePosted
    THEN {request[1].items[i] : i \in 1..Len(request[1].items)}
    ELSE {}

ZeroLine(item) ==
    /\ InvoiceItem_subtotal(item) = DecZero
    /\ InvoiceItem_discount_amount(item) = DecZero
    /\ InvoiceItem_tax_amount(item) = DecZero
    /\ InvoiceItem_total(item) = DecZero

PercentBoundaries(item) ==
    /\ item.discount_percent = Hundred => InvoiceItem_taxable_amount(item) = DecZero
    /\ item.tax_percent = Hundred
        => InvoiceItem_tax_amount(item) = InvoiceItem_taxable_amount(item)

\* C10 as stated: an invoice item with a quantity or a unit_price of 0 is an
\* item whose subtotal, discount amount, tax amount and total are 0; a
\* discount_percent of 100 gives taxable_amount 0 and a tax_percent of 100
\* gives tax_amount equal to taxable_amount.
C10_Original ==
    \A item \in PostedItems :
        /\ (item.quantity = DecZero \/ item.unit_price = DecZero)
            => (ValidInvoiceItem(item) /\ ZeroLine(item))
        /\ ValidInvoiceItem(item) => PercentBoundaries(item)

\* C10 as amended: a unit_price of 0 gives subtotal, discount amount, tax
\* amount and total 0; a discount_percent of 100 gives taxable_amount 0; a
\* tax_percent of 100 gives tax_amount equal to taxable_amount; a quantity of
\* 0 is no boundary value of an item: validation rejects the request.
C10_Boundaries ==
    /\ \A item \in ValidPostedItems :
        /\ item.unit_price = DecZero => ZeroLine(item)
        /\ PercentBoundaries(item)
    /\ \A item \in PostedItems :
        item.quantity = DecZero =>
            /\ ~ValidInvoiceItem(item)
            /\ result = None
            /\ http # None /\ http[1].status = 422

C10_Witness ==
    /\ phase = "responded"
    /\ ValidInvoicePosted
    /\ \E item \in ValidPostedItems : item.unit_price = DecZero
    /\ \E item \in ValidPostedItems :
        /\ item.tax_percent = Hundred
        /\ InvoiceItem_tax_amount(item) # InvoiceItem_subtotal(item)

\* x >= 0: the normal form holds zero without a sign
NonNegative(x) == ~x.neg

\* C11: for every InvoiceItem that passes validation subtotal,
\* discount_amount, taxable_amount, tax_amount and total are non-negative,
\* and so are subtotal, total_discount, total_tax and total_amount of every
\* valid InvoiceRequest.
C11_NonNegative ==
    /\ \A item \in ValidPostedItems :
        /\ NonNegative(InvoiceItem_subtotal(item))
        /\ NonNegative(InvoiceItem_discount_amount(item))
        /\ NonNegative(InvoiceItem_taxable_amount(item))
        /\ NonNegative(InvoiceItem_tax_amount(item))
        /\ NonNegative(InvoiceItem_total(item))
    /\ ValidInvoicePosted =>
        /\ NonNegative(InvoiceRequest_subtotal(request[1]))
        /\ NonNegative(InvoiceRequest_total_discount(request[1]))
        /\ NonNegative(InvoiceRequest_total_tax(request[1]))
        /\ NonNegative(InvoiceRequest_total_amount(request[1]))

C11_Witness ==
    /\ phase = "responded"
    /\ ValidInvoicePosted
    /\ \E item \in ValidPostedItems :
        /\ item.discount_percent = Hundred
        /\ InvoiceItem_taxable_amount(item) = DecZero
    /\ \E item \in ValidPostedItems :
        /\ DecLess(DecZero, InvoiceItem_discount_amount(item))
        /\ DecLess(DecZero, InvoiceItem_taxable_amount(item))
    /\ DecLess(DecZero, InvoiceRequest_total_amount(request[1]))

(***************************************************************************)
(* The document models                                                     *)
(***************************************************************************)
PrescriptionAssembled == PrescriptionPosted /\ story # None

\* Where the story holds the heading of a section
HeadingAt(title) ==
    { i \in 1..Len(story[1].flowables) :
        /\ story[1].flowables[i].style = "CustomSubHeader"
        /\ story[1].flowables[i].text = <<title>> }

TablesAt == { i \in 1..Len(story[1].flowables) : story[1].flowables[i].type = "Table" }

FollowUpAt == { i \in 1..Len(story[1].flowables) : story[1].flowables[i].style = "BoldInfo" }

\* every position of the first set is before every position of the second
Before(I, J) == \A i \in I, j \in J : i < j

\* The parts of C14 that do not depend on what "present" means
PrescriptionLayout ==
    LET req == request[1]
        f   == story[1].flowables
    IN  /\ Cardinality(HeadingAt("Doctor Information")) = 1
        /\ Cardinality(HeadingAt("Patient Information")) = 1
        /\ Cardinality(TablesAt) = 1
        /\ Cardinality(HeadingAt("Medical Advice")) <= 1
        /\ Cardinality(FollowUpAt) <= 1
        /\ Before(HeadingAt("Doctor Information"), HeadingAt("Patient Information"))
        /\ Before(HeadingAt("Patient Information"), TablesAt)
        /\ Before(TablesAt, HeadingAt("Medical Advice"))
        /\ Before(TablesAt \cup HeadingAt("Medical Advice"), FollowUpAt)
        /\ \A t \in TablesAt :
            /\ f[t].data[1] = <<"Medication", "Dosage", "Timing", "Duration", "Notes">>
            /\ Len(f[t].data) = Len(req.medications) + 1
            /\ \A r \in 1..Len(req.medications) :
                /\ Len(f[t].data[r + 1]) = 5
                /\ f[t].data[r + 1][1] = req.medications[r].name
                /\ f[t].data[r + 1][2] = req.medications[r].dosage
                /\ f[t].data[r + 1][3] = req.medications[r].timing
                /\ f[t].data[r + 1][4] = req.medications[r].duration
                /\ req.medications[r].note # None =>
                        f[t].data[r + 1][5] = req.medications[r].note[1]
        /\ \A a \in HeadingAt("Medical Advice") : f[a + 1].text = <<req.advice[1]>>
        /\ \A l \in FollowUpAt :
                f[l].text = <<"<b>Next Follow-up:</b> ", req.next_followup[1]>>

\* C14 as stated: doctor block, patient block, medication table, advice
\* block, follow-up line in that order; one table row per medication in
\* request order; the advice block is there exactly when the request gives
\* advice, the follow-up line exactly when it gives next_followup.
C14_Original ==
    PrescriptionAssembled =>
        /\ PrescriptionLayout
        /\ (HeadingAt("Medical Advice") # {}) <=> (request[1].advice # None)
        /\ (FollowUpAt # {}) <=> (request[1].next_followup # None)

\* C14 as amended: the same order and the same table; the advice block is
\* there exactly when advice is given and not the empty string, the
\* follow-up line exactly when next_followup is given and not the empty
\* string.
C14_PrescriptionSections ==
    PrescriptionAssembled =>
        /\ PrescriptionLayout
        /\ (HeadingAt("Medical Advice") # {}) <=> Truthy(request[1].advice)
        /\ (FollowUpAt # {}) <=> Truthy(request[1].next_followup)

C14_Witness ==
    /\ phase = "responded"
    /\ PrescriptionAssembled
    /\ Len(request[1].medications) = 2
    /\ request[1].medications[1] # request[1].medications[2]
    /\ HeadingAt("Medical Advice") # {}
    /\ FollowUpAt # {}

\* The item table is the table under the "Items" heading, the totals block
\* the table after it
ItemTableAt == { t \in TablesAt : \E h \in HeadingAt("Items") : t = h + 1 }

TotalsAt == TablesAt \ ItemTableAt

\* The parts of C15 that do not depend on what "present" means
InvoiceLayout ==
    LET req == request[1]
        f   == story[1].flowables
    IN  /\ Cardinality(HeadingAt("From:")) = 1
        /\ Cardinality(HeadingAt("Bill To:")) = 1
        /\ Cardinality(ItemTableAt) = 1
        /\ Cardinality(TotalsAt) = 1
        /\ Cardinality(HeadingAt("Payment Information")) = 1
        /\ Cardinality(HeadingAt("Notes")) <= 1
        /\ Before(HeadingAt("From:"), HeadingAt("Bill To:"))
        /\ Before(HeadingAt("Bill To:"), ItemTableAt)
        /\ Before(ItemTableAt, TotalsAt)
        /\ Before(TotalsAt, HeadingAt("Payment Information"))
        /\ Before(HeadingAt("Payment Information"), HeadingAt("Notes"))
        /\ \A h \in HeadingAt("From:") : f[h + 1].text = <<"<b>", req.business.name, "</b>">>
        /\ \A h \in HeadingAt("Bill To:") : f[h + 1].text[2] = req.customer.name
        /\ \A t \in ItemTableAt :
            /\ Len(f[t].data) = Len(req.items) + 1
            /\ \A r \in 1..Len(req.items) :
                /\ f[t].data[r + 1][1] = req.items[r].description
                /\ f[t].data[r + 1][2] = req.items[r].quantity
                /\ f[t].data[r + 1][3][2].units = Quantize(req.items[r].unit_price, 2)
        /\ \A t \in TotalsAt :
            /\ [r \in 1..Len(f[t].data) |-> f[t].data[r][1]]
                 = <<"Subtotal:", "Total Discount:", "Total Tax:", "<b>Total Amount:</b>">>
            /\ f[t].data = story[1].totals
        /\ \A h \in HeadingAt("Notes") :
            /\ f[h + 1].text = <<req.notes[1]>>
            /\ h + 1 = Len(f)

\* C15 as stated: From, Bill To, item table, totals block, payment
\* information, notes in that order; one item row per item in request order;
\* the totals block lists subtotal, total discount, total tax, total amount;
\* the notes block is there exactly when the request gives notes.
C15_Original ==
    InvoiceAssembled =>
        /\ InvoiceLayout
        /\ (HeadingAt("Notes") # {}) <=> (request[1].notes # None)

\* C15 as amended: the same order, item rows and totals block; the notes
\* block is there exactly when notes is given and not the empty string.
C15_InvoiceSections ==
    InvoiceAssembled =>
        /\ InvoiceLayout
        /\ (HeadingAt("Notes") # {}) <=> Truthy(request[1].notes)

C15_Witness ==
    /\ phase = "responded"
    /\ InvoiceAssembled
    /\ Len(request[1].items) = 2
    /\ request[1].items[1] # request[1].items[2]
    /\ HeadingAt("Notes") # {}

\* The text after the label of the line that starts with the label
ValuesOf(label) ==
    { story[1].flowables[i].text[2] :
        i \in { j \in 1..Len(story[1].flowables) :
                  /\ story[1].flowables[j].style = "InfoStyle"
                  /\ Len(story[1].flowables[j].text) >= 2
                  /\ story[1].flowables[j].text[1] = label } }

\* The Notes cells of the medications whose note is absent
AbsentNoteCells ==
    { story[1].flowables[t].data[r + 1][5] :
        t \in TablesAt,
        r \in { k \in 1..Len(request[1].medications) : request[1].medications[k].note = None } }

\* C16 as stated: every optional field the document shows and the request
\* leaves out is rendered as "N/A": patient_id, phone, symptoms and a
\* medication's note on a prescription, the optional business, customer and
\* payment fields on an invoice.
C16_Original ==
    /\ PrescriptionAssembled =>
        /\ request[1].patient.patient_id = None => ValuesOf("<b>Patient ID:</b> ") = {"N/A"}
        /\ request[1].patient.phone = None => ValuesOf("<b>Phone:</b> ") = {"N/A"}
        /\ request[1].symptoms = None => ValuesOf("<b>Symptoms:</b> ") = {"N/A"}
        /\ AbsentNoteCells \subseteq {"N/A"}
    /\ InvoiceAssembled =>
        /\ request[1].business.website = None => ValuesOf("Website: ") = {"N/A"}
        /\ request[1].business.tax_id = None => ValuesOf("Tax ID: ") = {"N/A"}
        /\ request[1].customer.phone = None => "N/A" \in ValuesOf("Phone: ")
        /\ request[1].customer.email = None => "N/A" \in ValuesOf("Email: ")
        /\ request[1].customer.customer_id = None => ValuesOf("Customer ID: ") = {"N/A"}
        /\ request[1].payment_info.payment_method = None =>
                ValuesOf("<b>Payment Method:</b> ") = {"N/A"}
        /\ request[1].payment_info.bank_details = None =>
                ValuesOf("<b>Bank Details:</b> ") = {"N/A"}

\* C16 as amended: an absent patient_id, phone or symptoms of a prescription
\* is rendered as "N/A"; the Notes cell of a medication without a note is
\* empty; an invoice leaves out the line of an absent website, tax id,
\* customer phone, customer email, customer id, payment method or bank
\* details, and shows the line with the value when the field is given.
C16_Fallbacks ==
    /\ PrescriptionAssembled =>
        /\ ValuesOf("<b>Patient ID:</b> ") = {OrElse(request[1].patient.patient_id, "N/A")}
        /\ ValuesOf("<b>Phone:</b> ") = {OrElse(request[1].patient.phone, "N/A")}
        /\ ValuesOf("<b>Symptoms:</b> ") = {OrElse(request[1].symptoms, "N/A")}
        /\ AbsentNoteCells \subseteq {""}
    /\ InvoiceAssembled =>
        /\ ValuesOf("Website: ") = {v[1] : v \in {request[1].business.website} \ {None}}
        /\ ValuesOf("Tax ID: ") = {v[1] : v \in {request[1].business.tax_id} \ {None}}
        /\ ValuesOf("Phone: ")
             = {request[1].business.phone}
               \cup {v[1] : v \in {request[1].customer.phone} \ {None}}
        /\ ValuesOf("Email: ")
             = {request[1].business.email}
               \cup {v[1] : v \in {request[1].customer.email} \ {None}}
        /\ ValuesOf("Customer ID: ")
             = {v[1] : v \in {request[1].customer.customer_id} \ {None}}
        /\ ValuesOf("<b>Payment Method:</b> ")
             = {v[1] : v \in {request[1].payment_info.payment_method} \ {None}}
        /\ ValuesOf("<b>Bank Details:</b> ")
             = {v[1] : v \in {request[1].payment_info.bank_details} \ {None}}

C16_Witness ==
    /\ phase = "responded"
    /\ PrescriptionAssembled
    /\ request[1].patient.patient_id = None
    /\ request[1].symptoms = None
    /\ AbsentNoteCells # {}
    /\ ValuesOf("<b>Patient ID:</b> ") = {"N/A"}

\* C17 as stated: the suggested filename of a generated prescription is
\* prescription_<patient name, spaces as underscores>_<only the digits of
\* prescription_date>.pdf.
C17_Original ==
    (PrescriptionPosted /\ CoreReturned /\ result[1].value.success) =>
        result[1].value.filename = Some(prescription_filename_digits_only(request[1]))

\* C17 as amended: the suggested filename of a generated prescription is
\* prescription_<patient name, every space an underscore>_<prescription_date
\* as given, character for character>.pdf.
C17_PrescriptionFilename ==
    (PrescriptionPosted /\ CoreReturned /\ result[1].value.success) =>
        LET fn   == result[1].value.filename[1]
            name == request[1].patient.name
            date == request[1].prescription_date
        IN  /\ Len(fn) = Len(name) + Len(date) + 3
            /\ fn[1] = "prescription_"
            /\ \A i \in 1..Len(name) :
                fn[1 + i] = (IF name[i] = " " THEN "_" ELSE name[i])
            /\ fn[2 + Len(name)] = "_"
            /\ \A j \in 1..Len(date) : fn[2 + Len(name) + j] = date[j]
            /\ fn[Len(fn)] = ".pdf"

C17_Witness ==
    /\ phase = "responded"
    /\ PrescriptionPosted
    /\ CoreReturned
    /\ result[1].value.success
    /\ \E i \in 1..Len(request[1].patient.name) : request[1].patient.name[i] = " "
    /\ \E j \in 1..Len(request[1].prescription_date) :
        request[1].prescription_date[j] \in {"-", " ", "J"}

(***************************************************************************)
(* C12: assembling the same validated request twice, whatever else runs    *)
(* beside or between the two calls, gives the same document model (the     *)
(* same flowables in the same order with the same field values) and the    *)
(* same suggested filename.                                                *)
(***************************************************************************)
SameRequest(v, w) ==
    /\ tasks[v].req # None
    /\ tasks[v].req = tasks[w].req

Succeeded(w) ==
    /\ tasks[w].pc = "returned"
    /\ tasks[w].result[1].value.success

C13_Stateless ==
    /\ styles = pdf_service_styles
    /\ fake_users_db = EmptyStore
    /\ user_id_counter = 1
    /\ \A w \in 1..MaxThreads :
        tasks[w].pc = "returned" =>
            tasks[w].result = Some(generate_alone(tasks[w].req[1], tasks[w].eng))

\* two calls for different documents overlap: one has returned its response
\* while the other, entered before that, is still being built
C13_Witness ==
    /\ Succeeded(1)
    /\ tasks[2].pc = "rendering"
    /\ tasks[2].req # tasks[1].req
    /\ tasks[2].req[1].kind # tasks[1].req[1].kind


(***************************************************************************)
(* C18: GET /pdf/health answers 503 with a diagnostic message exactly when *)
(* the rendering engine the service produces documents with (ReportLab) is *)
(* unavailable, and 200 with status healthy and the engine's version       *)
(* whenever that engine is available.                                      *)
(***************************************************************************)
HealthAnswered ==
    /\ phase = "responded"
    /\ request = Some(HealthRequest)

\* the engine the service renders with, by the service's own account
RenderingEngine == "reportlab"

EngineAvailable == RenderingEngine \in importable

C18_Original ==
    HealthAnswered =>
        /\ (http[1].status = 503) <=> ~EngineAvailable
        /\ EngineAvailable =>
            /\ http[1].status = 200
            /\ http[1].content.data.status = "healthy"
            /\ VersionOf(RenderingEngine) \in http[1].content.data.dependencies
        /\ http[1].status = 503 => http[1].content.message # <<>>

\* the engine imports, and the health check of the same process answers 503
C18_HealthyEngineReported503 ==
    /\ HealthAnswered
    /\ EngineAvailable
    /\ http[1].status = 503


(***************************************************************************)
(* C19: user ids are auto-incrementing.  After any sequence of             *)
(* create_user, update_user and delete_user calls every stored user has a  *)
(* distinct id, each successful create_user assigned an id strictly        *)
(* greater than every id assigned before it, and the id of a deleted user  *)
(* is never assigned again.                                                *)
(***************************************************************************)
Created(i) == id_log[i].op = "created"

Deleted(i) == id_log[i].op = "deleted"

C19_AutoIncrement ==
    /\ \A j \in DOMAIN fake_users_db : \A k \in DOMAIN fake_users_db :
        j # k => fake_users_db[j].id # fake_users_db[k].id
    /\ \A i \in 1..Len(id_log) : \A j \in 1..Len(id_log) :
        /\ (i < j /\ Created(i) /\ Created(j) => id_log[i].id < id_log[j].id)
        /\ (i < j /\ Deleted(i) /\ Created(j) => id_log[i].id # id_log[j].id)

\* a user was deleted, and a later create_user for the same email succeeded
\* beside another stored user
C19_Witness ==
    /\ Cardinality(DOMAIN fake_users_db) = 2
    /\ \E i \in 1..Len(id_log) : \E j \in 1..Len(id_log) :
        i < j /\ Deleted(i) /\ Created(j)

(***************************************************************************)
(* C20: the user store is keyed by email.  After any sequence of           *)
(* create_user, update_user (also one that changes the email) and          *)
(* delete_user calls every record is stored under the key equal to its own *)
(* email field, no two stored records have the same email, and             *)
(* get_user_by_email(e) returns a record exactly when some stored record   *)
(* has email e.                                                            *)
(***************************************************************************)
StoredWithEmail(e) == { k \in DOMAIN fake_users_db : fake_users_db[k].email = e }

C20_Original ==
    /\ \A k \in DOMAIN fake_users_db : fake_users_db[k].email = k
    /\ \A e \in Emails : Cardinality(StoredWithEmail(e)) <= 1
    /\ \A e \in Emails :
        get_user_by_email(fake_users_db, e) # None <=> StoredWithEmail(e) # {}

\* two stored records carry the same email, one of them under another key
C20_TwoRecordsOneEmail ==
    \E e \in Emails :
        /\ Cardinality(StoredWithEmail(e)) = 2
        /\ \E k \in StoredWithEmail(e) : k # e


(***************************************************************************)
(* C26: passwords are hashed before storage.  After any sequence of        *)
(* create_user and update_user calls, also updates that set a new          *)
(* password, no stored record holds a plaintext password or a 'password'   *)
(* field, and authenticate_user accepts, for the record it looks up,       *)
(* exactly the password most recently set for it.                          *)
(***************************************************************************)
C26_HashedBeforeStorage ==
    /\ \A k \in DOMAIN fake_users_db :
        /\ "password" \notin DOMAIN fake_users_db[k]
        /\ fake_users_db[k].hashed_password \notin Passwords
    /\ \A e \in Emails : \A p \in Passwords :
        authenticate_user(fake_users_db, e, p) # None
            <=> (e \in DOMAIN fake_users_db /\ p = password_of[fake_users_db[e].id])

\* an update has replaced the password given at registration with another
C26_Witness ==
    \E k \in DOMAIN fake_users_db :
        /\ fake_users_db[k].updated_at > fake_users_db[k].created_at
        /\ fake_users_db[k].hashed_password # get_password_hash("correct horse")
        /\ authenticate_user(fake_users_db, k, "battery staple") # None
        /\ authenticate_user(fake_users_db, k, "correct horse") = None
        /\ Cardinality(DOMAIN fake_users_db) = 2

(***************************************************************************)
(* C30: update_user(user_id, update) changes, on the record with that id,  *)
(* only the fields the update sets (password stored as hashed_password)    *)
(* and updated_at; it never changes that record's id or created_at, never  *)
(* changes another record, and where no record has the id it returns none  *)
(* and leaves the store as it was.                                         *)
(***************************************************************************)
\* the record before and after, field by field
OnlySetFieldsChanged(before, after, user_update) ==
    /\ after.id = before.id
    /\ after.created_at = before.created_at
    /\ after.updated_at = now
    /\ after.email = (IF user_update.email = None THEN before.email
                      ELSE user_update.email[1])
    /\ after.is_active = (IF user_update.is_active = None THEN before.is_active
                          ELSE user_update.is_active[1])
    /\ IF user_update.password = None
       THEN after.hashed_password = before.hashed_password
       ELSE verify_password(user_update.password[1], after.hashed_password)
    /\ DOMAIN after = DOMAIN before

C30_UpdateFrame ==
    \A user_id \in 1..MaxUsers : \A user_update \in UserUpdates :
        LET called == update_user(fake_users_db, user_id, user_update, now)
        IN  IF \A k \in DOMAIN fake_users_db : fake_users_db[k].id # user_id
            THEN called.user = None /\ called.db = fake_users_db
            ELSE /\ called.user # None
                 /\ called.user[1].id = user_id
                 /\ DOMAIN called.db = DOMAIN fake_users_db
                 /\ \A k \in DOMAIN fake_users_db :
                     IF fake_users_db[k].id = user_id
                     THEN OnlySetFieldsChanged(fake_users_db[k], called.db[k], user_update)
                     ELSE called.db[k] = fake_users_db[k]

\* two users are stored, time has passed since both were created, and one of
\* them has been updated since: its switch and updated_at differ
C30_Witness ==
    /\ Cardinality(DOMAIN fake_users_db) = 2
    /\ now > 0
    /\ \A k \in DOMAIN fake_users_db : fake_users_db[k].created_at = 0
    /\ \E k \in DOMAIN fake_users_db :
        /\ fake_users_db[k].updated_at = now
        /\ ~fake_users_db[k].is_active
        /\ \E j \in DOMAIN fake_users_db : fake_users_db[j].updated_at = 0


(***************************************************************************)
(* C27: under any interleaving of concurrent create_user, update_user and  *)
(* delete_user calls, each read and write of fake_users_db and             *)
(* user_id_counter a step of its own, the store behaves as if the calls    *)
(* excluded one another: no two stored users have the same id, and no      *)
(* email is registered by two create_user calls that both report success.  *)
(***************************************************************************)
Registered(w) ==
    /\ At(w, "create_user", "done")
    /\ ~calls[w].outcome[1].raised

C27_Original ==
    /\ \A j \in DOMAIN fake_users_db : \A k \in DOMAIN fake_users_db :
        j # k => fake_users_db[j].id # fake_users_db[k].id
    /\ \A v \in 1..MaxThreads : \A w \in 1..MaxThreads :
        v # w /\ Registered(v) /\ Registered(w)
            => calls[v].arg[1].email # calls[w].arg[1].email

\* two registrations that ran side by side have both reported success, and
\* the two users they stored carry the same id
C27_TwoUsersOneId ==
    /\ Registered(1)
    /\ Registered(2)
    /\ \E j \in DOMAIN fake_users_db : \E k \in DOMAIN fake_users_db :
        j # k /\ fake_users_db[j].id = fake_users_db[k].id

(***************************************************************************)
(* The user endpoints                                                      *)
(***************************************************************************)
\* the step in which an endpoint of the given kinds answers a request
Answers(kinds) ==
    /\ phase = "idle"
    /\ phase' = "responded"
    /\ request'[1].kind \in kinds

\* some stored user has the email
HasEmail(db, email) == \E k \in DOMAIN db : db[k].email = email

(***************************************************************************)
(* C21: registering with an email that is already registered fails with    *)
(* 'Email already registered' (HTTP 400) and leaves the user store and the *)
(* id counter unchanged; registering with an email no stored user has      *)
(* succeeds.                                                               *)
(***************************************************************************)
C21_Original ==
    [][Answers({"register"}) =>
        IF HasEmail(fake_users_db, request'[1].body.email)
        THEN /\ http'[1].status = 400
             /\ http'[1].content.message = "Email already registered"
             /\ UNCHANGED <<fake_users_db, user_id_counter>>
        ELSE /\ http'[1].status = 201
             /\ HasEmail(fake_users_db', request'[1].body.email)
             /\ user_id_counter' = user_id_counter + 1]_vars

\* a registration with an email that no stored user had has been answered
\* with 500 although the user is stored
C21_StoredButFailed ==
    /\ phase = "responded"
    /\ request[1].kind = "register"
    /\ http[1].status = 500
    /\ http[1].content.message = "Failed to create user"
    /\ request[1].body.email \in DOMAIN fake_users_db
    /\ fake_users_db[request[1].body.email].id = user_id_counter - 1

\* the endpoints behind Depends(get_current_active_user)
ProtectedKinds == {"me", "list", "get", "update", "delete"}

\* a bearer token the service signed, not yet expired, whose subject the
\* store resolves to a record that is active
ValidBearer(credentials, db, utcnow) ==
    /\ credentials.scheme = "bearer"
    /\ credentials.token.signed
    /\ credentials.token.exp >= utcnow
    /\ get_user_by_email(db, credentials.token.sub) # None
    /\ get_user_by_email(db, credentials.token.sub)[1].is_active

(***************************************************************************)
(* C22: every user endpoint other than register and login (get self, list, *)
(* get-by-id, update, delete) performs its operation only for a request    *)
(* carrying a valid bearer token whose subject is an existing, active      *)
(* user; without such a token the request is rejected and the user store   *)
(* is left unchanged.                                                      *)
(***************************************************************************)
C22_OnlyWithValidToken ==
    [][Answers(ProtectedKinds) =>
        IF ValidBearer(request'[1].credentials, fake_users_db, now)
        THEN request'[1].caller =
                 Some(get_user_by_email(fake_users_db, request'[1].credentials.token.sub)[1].id)
        ELSE /\ request'[1].caller = None
             /\ result'[1].raised
             /\ http'[1].status \in {400, 401, 403}
             /\ UNCHANGED userVars]_vars

\* an update sent with the token of a user that has been switched off since
\* the login has been rejected
C22_Witness ==
    /\ phase = "responded"
    /\ request[1].kind = "update"
    /\ request[1].credentials.scheme = "bearer"
    /\ request[1].credentials.token.signed
    /\ request[1].credentials.token.exp >= now
    /\ request[1].credentials.token.sub \in DOMAIN fake_users_db
    /\ ~fake_users_db[request[1].credentials.token.sub].is_active
    /\ request[1].user_id = fake_users_db[request[1].credentials.token.sub].id
    /\ request[1].caller = None
    /\ http[1].status = 400

\* why a request fails authentication or authorization, "" where it does not
FailureCause(req, db, utcnow) ==
    IF req.kind \in {"login", "token"}
    THEN IF authenticate_user(db, req.body.email, req.body.password) = None
         THEN "bad credentials" ELSE ""
    ELSE IF req.credentials.scheme = "none" THEN "missing token"
    ELSE IF ~req.credentials.token.signed THEN "invalid token"
    ELSE IF req.credentials.token.exp < utcnow THEN "expired token"
    ELSE IF get_user_by_email(db, req.credentials.token.sub) = None THEN "unknown user"
    ELSE IF ~get_user_by_email(db, req.credentials.token.sub)[1].is_active
    THEN "inactive account"
    ELSE IF /\ req.kind \in {"update", "delete"}
            /\ req.user_id # get_user_by_email(db, req.credentials.token.sub)[1].id
    THEN "ownership mismatch"
    ELSE ""

\* the message that goes with the cause
FixedMessage(cause, kind) ==
    CASE cause = "bad credentials" ->
             (IF kind = "token" THEN "Incorrect username or password"
              ELSE "Incorrect email or password")
      [] cause = "missing token" -> "Not authenticated"
      [] cause \in {"invalid token", "expired token"} -> "Could not validate credentials"
      [] cause = "unknown user" -> "User not found"
      [] cause = "inactive account" -> "Inactive user"
      [] cause = "ownership mismatch" ->
             (IF kind = "update" THEN "Not authorized to update this user"
              ELSE "Not authorized to delete this user")

\* C23 as stated: every authentication or authorization failure (bad
\* credentials at login, a missing, expired or invalid token, a token for an
\* inactive account, an ownership mismatch on update or delete) is surfaced
\* with status 401, 403 or 404 and a fixed message, never with another
\* status code.
C23_Original ==
    [][Answers(ProtectedKinds \cup {"login", "token"}) =>
        LET cause == FailureCause(request'[1], fake_users_db, now)
        IN  cause # "" =>
                /\ http'[1].status \in {401, 403, 404}
                /\ http'[1].content.message = FixedMessage(cause, request'[1].kind)]_vars

\* C23 as amended: every authentication or authorization failure is surfaced
\* with a fixed message and with status 401, 403 or 404, except a token for
\* an inactive account, which is surfaced with status 400; never with
\* another status code.
C23_FailuresSurfaced ==
    [][Answers(ProtectedKinds \cup {"login", "token"}) =>
        LET cause == FailureCause(request'[1], fake_users_db, now)
        IN  cause # "" =>
                /\ IF cause = "inactive account" THEN http'[1].status = 400
                   ELSE http'[1].status \in {401, 403, 404}
                /\ http'[1].content.message = FixedMessage(cause, request'[1].kind)
                /\ result'[1].raised]_vars

\* the token of an account that has been switched off has been refused
C23_Witness ==
    /\ phase = "responded"
    /\ request[1].kind = "me"
    /\ FailureCause(request[1], fake_users_db, now) = "inactive account"
    /\ http[1].status = 400
    /\ http[1].content.message = "Inactive user"

\* the ids of the accounts whose login issued the token of the request
SendersOf(req) == { t.issued_to : t \in { u \in tokens : req.credentials = Bearer(u.jwt) } }

(***************************************************************************)
(* C24: users can only update or delete their own account.  An update or   *)
(* delete request whose path user_id differs from the authenticated        *)
(* caller's id is rejected with 403 and leaves every stored record         *)
(* unchanged, so no sequence of requests lets one user modify or remove    *)
(* another user's record.                                                  *)
(***************************************************************************)
C24_Original ==
    [][Answers({"update", "delete"}) =>
        /\ (request'[1].caller # None /\ request'[1].caller[1] # request'[1].user_id)
               => /\ http'[1].status = 403
                  /\ UNCHANGED fake_users_db
        /\ \A sender \in SendersOf(request'[1]) :
               \A k \in DOMAIN fake_users_db :
                   fake_users_db[k].id # sender
                       => /\ k \in DOMAIN fake_users_db'
                          /\ fake_users_db'[k] = fake_users_db[k]]_vars

\* the rejection of a path id that is not the id of the record the token
\* resolves to
C24_MismatchRejected ==
    [][Answers({"update", "delete"}) =>
        ((request'[1].caller # None /\ request'[1].caller[1] # request'[1].user_id)
            => /\ http'[1].status = 403
               /\ UNCHANGED userVars)]_vars

\* the user who logged in has removed the account of another user: the
\* token was issued to one id, the request named another, the answer is 200
\* and the other account is gone while the sender's own is still stored
C24_Takeover ==
    /\ phase = "responded"
    /\ request[1].kind = "delete"
    /\ http[1].status = 200
    /\ KeysOfId(fake_users_db, request[1].user_id) = {}
    /\ SendersOf(request[1]) # {}
    /\ \A sender \in SendersOf(request[1]) :
           /\ sender # request[1].user_id
           /\ KeysOfId(fake_users_db, sender) # {}

\* the endpoints that answer with user data
UserDataKinds == {"register", "me", "list", "get", "update"}

C25_PublicElsewhere ==
    (phase = "responded" /\ request[1].kind \in UserDataKinds \ {"me"} /\ ~result[1].raised)
        => \A i \in DOMAIN result[1].value :
               "hashed_password" \notin DOMAIN result[1].value[i]

\* no body with user data reaches the client at all
C25_NothingOnTheWire ==
    (phase = "responded" /\ request[1].kind \in UserDataKinds /\ ~result[1].raised)
        => http[1].status = 500

\* the login with an email and a password, then the use of the token it
\* issued: the id of the user the token resolves to, 0 where either step fails
RoundTrip(db, email, password, utcnow) ==
    LET user == authenticate_user(db, email, password)
        outcome == login_user(user, FALSE, utcnow)
    IN  IF outcome.handed.raised THEN 0
        ELSE LET current_user ==
                     get_current_user(Bearer(outcome.handed.value[1].access_token), db, utcnow)
             IN  IF current_user.raised THEN 0 ELSE current_user.value.id

(***************************************************************************)
(* C28: login round trip.  For every stored active user, after any         *)
(* sequence of prior operations (including an update_user that changed the *)
(* user's email), logging in with the user's current email and current     *)
(* password succeeds, and the token it issues is accepted by               *)
(* get_current_user and resolves to that same user (same id).              *)
(***************************************************************************)
C28_Original ==
    \A k \in DOMAIN fake_users_db :
        fake_users_db[k].is_active
            => RoundTrip(fake_users_db, fake_users_db[k].email,
                         password_of[fake_users_db[k].id], now) = fake_users_db[k].id

\* the round trip for a user whose email no update has changed
C28_UnchangedEmail ==
    \A k \in DOMAIN fake_users_db :
        (fake_users_db[k].is_active /\ fake_users_db[k].email = k)
            => RoundTrip(fake_users_db, k, password_of[fake_users_db[k].id], now)
                   = fake_users_db[k].id

\* a stored, active user has sent its current email and password to
\* POST /auth/login and has been refused
C28_LoginRefused ==
    /\ phase = "responded"
    /\ request[1].kind = "login"
    /\ http[1].status = 401
    /\ \E k \in DOMAIN fake_users_db :
           /\ fake_users_db[k].is_active
           /\ fake_users_db[k].email = request[1].body.email
           /\ password_of[fake_users_db[k].id] = request[1].body.password

\* the user the token of the request was issued to is stored no more
SenderDeleted(req) ==
    /\ SendersOf(req) # {}
    /\ \A sender \in SendersOf(req) : KeysOfId(fake_users_db, sender) = {}

(***************************************************************************)
(* C29: a token never authenticates an account other than the one it was   *)
(* issued for.  Once the user a token was issued to has been deleted,      *)
(* every later use of that unexpired token is rejected with 401, even      *)
(* after another account has been registered with the same email (which    *)
(* receives a different id).                                               *)
(***************************************************************************)
C29_Original ==
    [][Answers(ProtectedKinds) =>
        /\ \A sender \in SendersOf(request'[1]) :
               request'[1].caller \in {None, Some(sender)}
        /\ SenderDeleted(request'[1]) => http'[1].status = 401]_vars

\* the rejection while no account has been registered with the email since
C29_RejectedUntilReregistered ==
    [][Answers(ProtectedKinds) =>
        ((SenderDeleted(request'[1])
            /\ request'[1].credentials.token.sub \notin DOMAIN fake_users_db)
                => /\ http'[1].status = 401
                   /\ UNCHANGED userVars)]_vars

\* a token issued to a user that has been deleted since has authenticated
\* the account registered later with the same email and switched it off
C29_Witness ==
    /\ phase = "responded"
    /\ request[1].kind = "update"
    /\ SendersOf(request[1]) # {}
    /\ \A sender \in SendersOf(request[1]) :
           /\ KeysOfId(fake_users_db, sender) = {}
           /\ request[1].caller # None
           /\ request[1].caller[1] > sender
    /\ request[1].credentials.token.sub \in DOMAIN fake_users_db
    /\ fake_users_db[request[1].credentials.token.sub].email
           = request[1].credentials.token.sub
    /\ fake_users_db[request[1].credentials.token.sub].id = request[1].caller[1]
    /\ ~fake_users_db[request[1].credentials.token.sub].is_active

====
